---- MODULE Spec2Model ----
(***************************************************************************)
(* Model of the CLIP classifier's persistence and enrichment core:         *)
(*   embedding_store.py     EmbeddingStore (MySQL-backed caches, feedback) *)
(*   llm_label_expander.py  expand_labels_with_llm                         *)
(*   classifier.py          ClipClassifier.classify_pil and its callers    *)
(* Threads call the public operations concurrently.  Every store operation *)
(* runs as the steps of its code: the enabled/argument guard, the locked   *)
(* _ensure_schema, _connect, and the single SQL statement, which the       *)
(* database executes atomically.  The backend may fail at every connect,   *)
(* DDL batch and statement.                                                *)
(***************************************************************************)
EXTENDS Integers, Sequences, FiniteSets, TLC

\* ------------------------------------------------------------------ bounds
\* Each thread makes one public call; the calls run in any order and overlap
\* in any way.
NumStoreCalls == 3

NumExpandCalls == 2

\* The classifications the event loop serves, one after the other.
NumClassifyCalls == 2

\* Threads that call get_label_embeddings at the same time.
NumLabelCalls == 2

\* The floating-point numbers of the model: FloatPrecision significant bits
\* (53 in a Python float) and FloatScale bits after the binary point, so
\* that a number is a whole count of units of 2^-FloatScale.
FloatPrecision == 6
FloatScale == 12

StoreCallers == 1..NumStoreCalls
ExpandCallers == 1..NumExpandCalls
LabelCallers == 1..NumLabelCalls

\* main.classify is "async def" and calls the classifier without awaiting:
\* classifications run on the event loop's thread, one at a time.
EventLoop == 0

\* main.feedback is "def": it runs on a thread of the server's pool.
FeedbackWorker == 1

Threads ==
    {EventLoop} \cup StoreCallers \cup ExpandCallers \cup LabelCallers

\* ------------------------------------------------------------- value sets
\* Text is a sequence of one-character strings, so that strip() and lower()
\* are computed.
Hashes == {"h1"}
ImageHashes == {"h1", "h2"}
HashArgs == {"", "h1"}
Models == {"m1", "m2"}
StoredThemes == {<<"t">>}
ThemeArgs == {<<>>, <<"t">>, <<" ", "T">>}
AssetArgs == {"NULL", "a1"}
FeedbackAssetArgs == {"a1"}

\* ---------------------------------------------------------------- results
\* Python values returned by the store operations.
PyNone == [kind |-> "None"]
Returned(v) == [kind |-> "value", value |-> v]

\* An exception, in the place of a returned value.
Raised == [kind |-> "raise"]

\* float(acceptance / total) as the exact fraction; 0.0 is 0/1.
Weight(num, den) == [num |-> num, den |-> den]
ZeroWeight == Weight(0, 1)
IsOne(w) == w.num = w.den

\* Vector components are counted in half units of float32 precision: an even
\* number is representable in float32, an odd one is not.
Vectors == {<<2, 0>>, <<0, 3>>}

\* np.asarray(x, dtype=np.float32): round to the representable value.
Float32(x) == 2 * (x \div 2)

Float32Vector(v) == [i \in 1..Len(v) |-> Float32(v[i])]

\* EmbeddingStore._serialize_vector: the float32 image of the vector (one
\* element per 4-byte group) and its length.
SerializeVector(v) == [payload |-> Float32Vector(v), dim |-> Len(v)]

\* EmbeddingStore._deserialize_vector
DeserializeVector(raw, dim) ==
    IF raw = <<>> THEN <<>>
    ELSE IF dim > 0 /\ Len(raw) # dim THEN SubSeq(raw, 1, dim)
    ELSE raw

\* ------------------------------------------------------------------- text
IsSpace(ch) == ch = " "

LowerChar(ch) ==
    CASE ch = "A" -> "a"
      [] ch = "B" -> "b"
      [] ch = "T" -> "t"
      [] ch = "E" -> "e"
      [] ch = "É" -> "é"
      [] OTHER -> ch

\* str.lower()
Lower(s) == [i \in 1..Len(s) |-> LowerChar(s[i])]

RECURSIVE LStrip(_)
LStrip(s) == IF s # <<>> /\ IsSpace(Head(s)) THEN LStrip(Tail(s)) ELSE s

RECURSIVE RStrip(_)
RStrip(s) ==
    IF s # <<>> /\ IsSpace(s[Len(s)]) THEN RStrip(SubSeq(s, 1, Len(s) - 1))
    ELSE s

\* str.strip()
Strip(s) == RStrip(LStrip(s))

\* s[:n]
Prefix(s, n) == SubSeq(s, 1, IF Len(s) < n THEN Len(s) ELSE n)

ThemeMaxLen == 120

\* classifier._normalize_theme
NormalizeTheme(value) == Prefix(Lower(Strip(value)), ThemeMaxLen)

\* ------------------------------------------------- enrichment payloads
\* A JSON value under a payload key: a list of strings, or anything else
\* (missing, null, a string, a number, ...).
JsonList(items) == [is_list |-> TRUE, items |-> items]
NotAList == [is_list |-> FALSE, items |-> <<>>]

\* _sanitize_list with no "if len(cleaned) >= max_items: break".
RECURSIVE SanitizeFromUncapped(_, _, _, _)
SanitizeFromUncapped(values, cleaned, seen, max_items) ==
    IF values = <<>> THEN cleaned
    ELSE LET text == Strip(Head(values))
             key == Lower(text)
         IN  IF text = <<>> \/ key \in seen
             THEN SanitizeFromUncapped(Tail(values), cleaned, seen,
                                       max_items)
             ELSE SanitizeFromUncapped(Tail(values), Append(cleaned, text),
                                       seen \cup {key}, max_items)

\* llm_label_expander._sanitize_list, from the rest of the list on.
RECURSIVE SanitizeFrom(_, _, _, _)
SanitizeFrom(values, cleaned, seen, max_items) ==
    IF values = <<>> THEN cleaned
    ELSE LET text == Strip(Head(values))
             key == Lower(text)
         IN  IF text = <<>> \/ key \in seen
             THEN SanitizeFrom(Tail(values), cleaned, seen, max_items)
             ELSE IF Len(cleaned) + 1 >= max_items
             THEN Append(cleaned, text)
             ELSE SanitizeFrom(Tail(values), Append(cleaned, text),
                               seen \cup {key}, max_items)

\* Mutant of SanitizeList: the first text kept is dropped, so that a second
\* pass over a sanitized list changes it.
SanitizeListDroppingFirst(values, max_items) ==
    IF ~values.is_list \/ SanitizeFrom(values.items, <<>>, {}, max_items) = <<>>
    THEN <<>>
    ELSE Tail(SanitizeFrom(values.items, <<>>, {}, max_items))

\* llm_label_expander._sanitize_list
SanitizeList(values, max_items) ==
    IF ~values.is_list THEN <<>>
    ELSE SanitizeFrom(values.items, <<>>, {}, max_items)

MaxSubtags == 20
MaxStyleTraits == 12
MaxEmotions == 10
MaxPackSuggestions == 12

NoKeys == [subtags |-> NotAList, style_traits |-> NotAList,
           emotions |-> NotAList, pack_suggestions |-> NotAList]

\* llm_label_expander._normalize_payload; payload is None or a dict.
NormalizePayload(payload) ==
    LET source == IF payload.kind = "None" THEN NoKeys ELSE payload.value
    IN  [subtags |-> JsonList(SanitizeList(source.subtags, MaxSubtags)),
         style_traits |->
             JsonList(SanitizeList(source.style_traits, MaxStyleTraits)),
         emotions |-> JsonList(SanitizeList(source.emotions, MaxEmotions)),
         pack_suggestions |->
             JsonList(SanitizeList(source.pack_suggestions,
                                   MaxPackSuggestions))]

\* llm_label_expander._EMPTY_EXPANSION
EmptyExpansion ==
    [subtags |-> JsonList(<<>>), style_traits |-> JsonList(<<>>),
     emotions |-> JsonList(<<>>), pack_suggestions |-> JsonList(<<>>)]

\* What the remote collaborator may do: raise (timeout, error response), or
\* answer with a text that holds no JSON object, or with one that holds the
\* JSON object given.
Letters == <<"c", "d", "e", "f", "g">>

\* n texts of two letters, no two of them equal: cc, cd, ..., gg.
Texts(n) ==
    [i \in 1..n |-> <<Letters[((i - 1) \div 5) + 1],
                      Letters[((i - 1) % 5) + 1]>>]

\* The JSON object of the answer: subtags with blanks to trim, an empty
\* text, texts equal but for their case and more than 20 distinct ones;
\* style_traits that is no list; 11 emotions; 13 pack suggestions, two of
\* them equal but for their case.
RemoteDict ==
    [subtags |-> JsonList(<< <<" ", "a">>, <<"A">>, <<"b">>, <<" ">> >>
                          \o Texts(20)),
     style_traits |-> NotAList,
     emotions |-> JsonList(Texts(11)),
     pack_suggestions |-> JsonList(<< <<"b">>, <<"B", " ">> >>
                                   \o Texts(11))]

RemoteOutcomes ==
    {[kind |-> "raise"], [kind |-> "text", json |-> "none"],
     [kind |-> "text", json |-> "dict", dict |-> RemoteDict]}

\* llm_label_expander._extract_json_dict on the answer's content: the parsed
\* object when the text holds one, None otherwise.
ExtractJsonDict(answer) ==
    IF answer.json = "dict" THEN Returned(answer.dict) ELSE PyNone

\* What line 134 normalizes: the parsed content of the answer, when the
\* request gave one.
ParsedAnswer(answer) ==
    IF answer.kind = "raise" THEN Raised ELSE ExtractJsonDict(answer)

\* Lines 121-136 of expand_labels_with_llm: the payload after the remote
\* call, the except branch included.
NormalizedAnswer(answer) ==
    IF answer.kind = "raise" THEN EmptyExpansion
    ELSE NormalizePayload(ExtractJsonDict(answer))

\* Mutant of RemoteRequests: a failed request is sent a second time.
RemoteRequestsRetried(answer) == IF answer.kind = "raise" THEN 2 ELSE 1

\* How many requests one miss sends to the remote collaborator: the single
\* client.chat.completions.create call of line 122.
RemoteRequests(answer) == 1

MaxTopLabels == 3

\* [str(label).strip() for label in top_labels if str(label).strip()][:3]
RECURSIVE StripNonEmpty(_)
StripNonEmpty(labels) ==
    IF labels = <<>> THEN <<>>
    ELSE IF Strip(Head(labels)) = <<>> THEN StripNonEmpty(Tail(labels))
    ELSE <<Strip(Head(labels))>> \o StripNonEmpty(Tail(labels))

CleanLabels(top_labels) == Prefix(StripNonEmpty(top_labels), MaxTopLabels)

\* llm_label_expander.LLM_EXPANSION_MODEL
LlmExpansionModel == "gpt-4.1-mini"

\* llm_label_expander._build_cache_key: the SHA-256 of the JSON of model and
\* labels, which distinct (model, labels) do not share.
BuildCacheKey(model_name, top_labels) == <<model_name, top_labels>>

TopLabelArgs ==
    {<<>>, << <<" ">> >>, << <<"a">> >>, << <<" ", "a">>, <<" ">> >>,
     << <<"a">>, <<"a">>, <<"a">>, <<"a">> >>}

CacheKeys ==
    {BuildCacheKey(LlmExpansionModel, CleanLabels(t)) :
        t \in {x \in TopLabelArgs \cup {<< <<"a">>, <<"b">> >>,
                                         << <<"b">>, <<"a">> >>} :
                  CleanLabels(x) # <<>>}}

NoLlmRow == [present |-> FALSE, model_name |-> "", top_labels |-> <<>>,
             expansion |-> EmptyExpansion]

\* SELECT expansion_json FROM clip_llm_label_expansion_cache WHERE
\* cache_key = k, then json.loads: the dict, or None when there is no row.
SelectLlmExpansion(table, k) ==
    IF k \in DOMAIN table /\ table[k].present
    THEN Returned(table[k].expansion)
    ELSE PyNone

\* INSERT INTO clip_llm_label_expansion_cache ... ON DUPLICATE KEY UPDATE
UpsertLlmExpansion(table, k, m, labels, payload) ==
    [table EXCEPT ![k] = [present |-> TRUE, model_name |-> m,
                          top_labels |-> labels, expansion |-> payload]]

\* Mutant of ExpandReturnsEmpty: the enabled flag is not looked at.
ExpandReturnsEmptyFlagIgnored(isEnabled, clean_labels, api_key) ==
    clean_labels = <<>> \/ ~api_key

\* The three early returns of expand_labels_with_llm (lines 92-101).
ExpandReturnsEmpty(isEnabled, clean_labels, api_key) ==
    ~isEnabled \/ clean_labels = <<>> \/ ~api_key

\* Mutant of IsCacheHit: the cached payload is never taken.
IsCacheHitNever(cached) == FALSE

\* "if isinstance(cached, dict)"
IsCacheHit(cached) == cached.kind = "value"

\* ------------------------------------------------------------------- rows
NoImageRow == [present |-> FALSE, asset_id |-> "NULL", model_name |-> "",
               embedding_dim |-> 0, embedding |-> <<>>, updated_at |-> 0]
NoFeedbackRow == [present |-> FALSE, asset_id |-> "NULL",
                  acceptance_count |-> 0, total_assignments |-> 0]

\* SELECT embedding, embedding_dim FROM clip_image_embedding_cache
\* WHERE image_hash = h AND model_name = m LIMIT 1, then the deserialization
\* of get_image_embedding.
SelectImageEmbedding(table, h, m) ==
    IF h \in DOMAIN table /\ table[h].present /\ table[h].model_name = m
    THEN Returned(DeserializeVector(table[h].embedding,
                                    table[h].embedding_dim))
    ELSE PyNone

\* The key on which INSERT ... ON DUPLICATE KEY UPDATE of
\* clip_image_embedding_cache finds the duplicate: PRIMARY KEY (image_hash).
ImagePrimaryKey(h, m) == h

\* INSERT INTO clip_image_embedding_cache ... ON DUPLICATE KEY UPDATE
\* asset_id, model_name, embedding_dim, embedding = VALUES(...)
\* updated_at is the row's rank by time of writing, 1 for the row written
\* longest ago: the statement makes its row the latest.
UpsertImageEmbedding(table, h, m, v, a) ==
    LET k == ImagePrimaryKey(h, m)
        others == {x \in DOMAIN table \ {k} : table[x].present}
    IN  [x \in DOMAIN table |->
            IF x = k
            THEN [present |-> TRUE, asset_id |-> a, model_name |-> m,
                  embedding_dim |-> SerializeVector(v).dim,
                  embedding |-> SerializeVector(v).payload,
                  updated_at |-> Cardinality(others) + 1]
            ELSE IF table[x].present /\ table[k].present
                    /\ table[x].updated_at > table[k].updated_at
            THEN [table[x] EXCEPT !.updated_at = @ - 1]
            ELSE table[x]]

\* The rows of hs, latest first.
RECURSIVE LatestFirst(_, _)
LatestFirst(table, hs) ==
    IF hs = {} THEN <<>>
    ELSE LET h == CHOOSE x \in hs :
                     \A y \in hs : table[y].updated_at <= table[x].updated_at
         IN  <<h>> \o LatestFirst(table, hs \ {h})

ScanLimitMin == 50
ScanLimitMax == 20000
ScanLimitDefault == 3000

\* The limit as asked, with no floor and no ceiling.
SafeLimitUnclamped(limit) == limit

\* "safe_limit = max(50, min(int(limit or 3000), 20000))"
SafeLimit(limit) ==
    LET asked == IF limit = 0 THEN ScanLimitDefault ELSE limit
        capped == IF asked < ScanLimitMax THEN asked ELSE ScanLimitMax
    IN  IF capped > ScanLimitMin THEN capped ELSE ScanLimitMin

\* SELECT image_hash, asset_id, embedding, embedding_dim FROM
\* clip_image_embedding_cache WHERE model_name = m ORDER BY updated_at DESC
\* LIMIT safe_limit, then the SimilarImageRow of each row.
SelectImageEmbeddings(table, m, limit) ==
    LET hs == {h \in DOMAIN table :
                  table[h].present /\ table[h].model_name = m}
        ordered == Prefix(LatestFirst(table, hs), SafeLimit(limit))
    IN  [i \in 1..Len(ordered) |->
            [image_hash |-> ordered[i],
             asset_id |-> table[ordered[i]].asset_id,
             embedding |-> DeserializeVector(
                               table[ordered[i]].embedding,
                               table[ordered[i]].embedding_dim)]]

\* The labels the classifier is asked about.
LabelTexts == {<<"a">>, <<"b">>}

NoLabelRow == [present |-> FALSE, embedding_dim |-> 0, embedding |-> <<>>]

\* A dict from labels to vectors; PyNone marks a label that is not a key.
NoEmbeddings == [l \in LabelTexts |-> PyNone]

Keys(dict) == {l \in DOMAIN dict : dict[l].kind = "value"}

\* dict.update
Update(dict, other) ==
    [l \in DOMAIN dict |-> IF other[l].kind = "value" THEN other[l]
                           ELSE dict[l]]

\* Mutant of Without: nothing is taken out.
WithoutNothing(s, set) == s

\* s without the elements that are in the set
RECURSIVE Without(_, _)
Without(s, set) ==
    IF s = <<>> THEN <<>>
    ELSE IF Head(s) \in set THEN Without(Tail(s), set)
    ELSE <<Head(s)>> \o Without(Tail(s), set)

Elements(s) == {s[i] : i \in 1..Len(s)}

\* SELECT label, embedding, embedding_dim FROM clip_label_embedding_cache
\* WHERE model_name = m AND label IN (labels), then the dict of
\* get_label_embeddings.
SelectLabelEmbeddings(table, m, labels) ==
    [l \in LabelTexts |->
        IF l \in Elements(labels) /\ table[<<m, l>>].present
        THEN Returned(DeserializeVector(table[<<m, l>>].embedding,
                                        table[<<m, l>>].embedding_dim))
        ELSE PyNone]

\* INSERT INTO clip_label_embedding_cache ... ON DUPLICATE KEY UPDATE, for
\* every item of the dict.
UpsertLabelEmbeddings(table, m, embeddings) ==
    [k \in DOMAIN table |->
        IF k[1] = m /\ k[2] \in Keys(embeddings)
        THEN [present |-> TRUE,
              embedding_dim |-> SerializeVector(embeddings[k[2]].value).dim,
              embedding |->
                  SerializeVector(embeddings[k[2]].value).payload]
        ELSE table[k]]

\* Mutant of SelectAffinityWeight: the quotient is taken upside down.
SelectAffinityWeightInverted(table, h, t) ==
    IF <<h, t>> \in DOMAIN table /\ table[<<h, t>>].present
    THEN Weight(table[<<h, t>>].total_assignments,
                table[<<h, t>>].acceptance_count)
    ELSE ZeroWeight

\* SELECT acceptance_count, total_assignments ... and the division of
\* get_affinity_weight.
SelectAffinityWeight(table, h, t) ==
    IF <<h, t>> \in DOMAIN table /\ table[<<h, t>>].present
       /\ table[<<h, t>>].total_assignments > 0
    THEN Weight(table[<<h, t>>].acceptance_count,
                table[<<h, t>>].total_assignments)
    ELSE ZeroWeight

\* Mutant of FeedbackUpdate: the counters are overwritten with VALUES(...)
\* instead of incremented.
FeedbackUpdateOverwrites(row, inc, a) ==
    [present |-> TRUE,
     asset_id |-> IF a # "NULL" THEN a ELSE row.asset_id,
     acceptance_count |-> inc,
     total_assignments |-> 1]

\* The row written by the ON DUPLICATE KEY UPDATE branch of record_feedback.
FeedbackUpdate(row, inc, a) ==
    [present |-> TRUE,
     asset_id |-> IF a # "NULL" THEN a ELSE row.asset_id,
     acceptance_count |-> row.acceptance_count + inc,
     total_assignments |-> row.total_assignments + 1]

\* INSERT INTO clip_image_theme_feedback (..., acceptance_count,
\* total_assignments) VALUES (..., inc, 1) ON DUPLICATE KEY UPDATE ...
UpsertFeedback(table, h, t, inc, a) ==
    [table EXCEPT ![<<h, t>>] =
        IF table[<<h, t>>].present
        THEN FeedbackUpdate(table[<<h, t>>], inc, a)
        ELSE [present |-> TRUE, asset_id |-> a, acceptance_count |-> inc,
              total_assignments |-> 1]]

\* ------------------------------------------------------- the classifier
\* classifier.CLIP_MODEL_NAME
ClipModelName == "m1"

\* The feature flags of classifier.py, at their defaults.
EnableEmbeddingCache == TRUE
EnableClustering == TRUE
EnableAdaptiveScoring == TRUE
EnableLlmLabelExpansion == TRUE

MaxLabels == 256
ClipTopK == 5

\* classifier._normalize_labels: stripped, without blanks and without
\* case-insensitive duplicates, at most MAX_LABELS.  An empty result is a
\* ValueError, which InvalidRequest tells.
RECURSIVE UniqueLabels(_, _)
UniqueLabels(labels, seen) ==
    IF labels = <<>> THEN <<>>
    ELSE LET normalized == Strip(Head(labels))
             key == Lower(normalized)
         IN  IF normalized = <<>> \/ key \in seen
             THEN UniqueLabels(Tail(labels), seen)
             ELSE <<normalized>> \o
                  UniqueLabels(Tail(labels), seen \cup {key})

NormalizeLabels(labels) == Prefix(UniqueLabels(labels, {}), MaxLabels)

\* The image encoder (ClipClassifier._compute_image_embedding) on the image
\* with the given hash; its output is float32.
ComputeImageEmbedding(h) ==
    Float32Vector(IF h = "h1" THEN <<2, 0>> ELSE <<4, 1>>)

\* The text encoder on one label.
EncodeText(label) ==
    Float32Vector(IF label = <<"a">> THEN <<2, 1>> ELSE <<0, 2>>)

\* Mutant of ComputeLabelEmbeddings: the text encoder gives no embedding.
ComputeLabelEmbeddingsOfNone(labels) == NoEmbeddings

\* ClipClassifier._compute_label_embeddings
ComputeLabelEmbeddings(labels) ==
    [l \in LabelTexts |->
        IF l \in Elements(labels) THEN Returned(EncodeText(l)) ELSE PyNone]

Dot(a, b) ==
    IF Len(a) = 0 THEN 0
    ELSE IF Len(a) = 1 THEN a[1] * b[1]
    ELSE a[1] * b[1] + a[2] * b[2]

\* np.linalg.norm, for the vectors of the model, whose norms are whole
\* numbers.
Norm(v) == CHOOSE r \in 0..26 : r * r = Dot(v, v)

\* A cosine similarity is counted in units of 1e-7, about the precision of
\* the float32 the scores are computed in; a reported similarity is counted
\* in millionths, the precision of round(x, 6).
ScoreUnit == 10000000
SimilarityUnit == 1000000

\* n / d in score units, rounded down (in steps, to stay within 32 bits).
ScaledQuotient(n, d) ==
    LET first == (n % d) * 1000
        second == (first % d) * 10000
    IN  (n \div d) * ScoreUnit + (first \div d) * 10000 + second \div d

\* similarity_engine.cosine_similarity_matrix for one pair of vectors of
\* the same length; a norm of zero is clipped to 1e-12 and leaves a
\* similarity of 0.
CosineSimilarity(a, b) ==
    IF Norm(a) = 0 \/ Norm(b) = 0 THEN 0
    ELSE ScaledQuotient(Dot(a, b), Norm(a) * Norm(b))

\* round(float(score), 6): the score in millionths, to the nearest, a tie
\* to the even one.
Round6(score) ==
    LET q == score \div (ScoreUnit \div SimilarityUnit)
        r == score % (ScoreUnit \div SimilarityUnit)
        half == (ScoreUnit \div SimilarityUnit) \div 2
    IN  IF r > half \/ (r = half /\ q % 2 = 1) THEN q + 1 ELSE q

\* Mutant of InsertDescending: the smaller keys come first.
RECURSIVE InsertAscending(_, _)
InsertAscending(sorted, e) ==
    IF sorted = <<>> THEN <<e>>
    ELSE IF Head(sorted).key <= e.key
    THEN <<Head(sorted)>> \o InsertAscending(Tail(sorted), e)
    ELSE <<e>> \o sorted

\* Insertion after the elements whose key is not smaller: a stable sort in
\* descending order, as sorted(..., reverse=True) and list.sort are.
RECURSIVE InsertDescending(_, _)
InsertDescending(sorted, e) ==
    IF sorted = <<>> THEN <<e>>
    ELSE IF Head(sorted).key >= e.key
    THEN <<Head(sorted)>> \o InsertDescending(Tail(sorted), e)
    ELSE <<e>> \o sorted

RECURSIVE SortDescending(_)
SortDescending(s) ==
    IF s = <<>> THEN <<>>
    ELSE InsertDescending(SortDescending(SubSeq(s, 1, Len(s) - 1)),
                          s[Len(s)])

\* Mutant of SimilarCandidates: the row of the query's own hash is kept.
RECURSIVE SimilarCandidatesWithSource(_, _)
SimilarCandidatesWithSource(rows, source_image_hash) ==
    IF rows = <<>> THEN <<>>
    ELSE IF Head(rows).embedding = <<>>
    THEN SimilarCandidatesWithSource(Tail(rows), source_image_hash)
    ELSE <<Head(rows)>>
            \o SimilarCandidatesWithSource(Tail(rows), source_image_hash)

\* The first loop of find_similar_images (lines 43-51): the rows without
\* the one of the query's own hash and without the empty vectors.
RECURSIVE SimilarCandidates(_, _)
SimilarCandidates(rows, source_image_hash) ==
    IF rows = <<>> THEN <<>>
    ELSE IF (source_image_hash # ""
             /\ Head(rows).image_hash = source_image_hash)
            \/ Head(rows).embedding = <<>>
    THEN SimilarCandidates(Tail(rows), source_image_hash)
    ELSE <<Head(rows)>> \o SimilarCandidates(Tail(rows), source_image_hash)

\* Lines 56-58: np.asarray(vectors) of vectors of unequal lengths, and
\* cosine_similarity_matrix of matrices of unequal widths, raise ValueError.
DimensionsMatch(candidates, image_embedding) ==
    \A i \in 1..Len(candidates) :
        Len(candidates[i].embedding) = Len(image_embedding)

\* The second loop (lines 60-71): the hits, in row order; key is the
\* similarity of the entry, by which the hits are sorted.
RECURSIVE SimilarHits(_, _, _)
SimilarHits(candidates, image_embedding, threshold) ==
    IF candidates = <<>> THEN <<>>
    ELSE LET row == Head(candidates)
             rest == SimilarHits(Tail(candidates), image_embedding,
                                 threshold)
             score == CosineSimilarity(image_embedding, row.embedding)
         IN  IF score < threshold THEN rest
             ELSE <<[key |-> Round6(score), image_hash |-> row.image_hash,
                     asset_id |-> row.asset_id]>> \o rest

SimilarityLimitMax == 100
SimilarityLimitFallback == 25

\* "max(1, min(int(limit or 25), 100))"
HitLimit(limit) ==
    LET asked == IF limit = 0 THEN SimilarityLimitFallback ELSE limit
        capped == IF asked < SimilarityLimitMax THEN asked
                  ELSE SimilarityLimitMax
    IN  IF capped > 1 THEN capped ELSE 1

\* similarity_engine.find_similar_images on the rows the store listed: the
\* list of hits, or the ValueError of a dimension mismatch, which nothing
\* in the function catches.
FindSimilarImages(rows, image_embedding, threshold, limit, source_image_hash) ==
    LET candidates == SimilarCandidates(rows, source_image_hash)
        query == Float32Vector(image_embedding)
    IN  IF candidates = <<>> THEN Returned(<<>>)
        ELSE IF ~DimensionsMatch(candidates, query) THEN Raised
        ELSE Returned(Prefix(SortDescending(SimilarHits(candidates, query,
                                                        threshold)),
                             HitLimit(limit)))

\* classifier.SIMILARITY_THRESHOLD_DEFAULT (0.85, in score units),
\* SIMILARITY_LIMIT_DEFAULT and SIMILARITY_SCAN_LIMIT
SimilarityThresholdDefault == 8500000
SimilarityLimitDefault == 25
SimilarityScanLimit == 3000

\* The labels ordered by score, best first.  The score of a label is the
\* softmax of the logits, which orders the labels as the logits do, and the
\* adaptive rescaling multiplies every score by the same factor.
OrderedLabels(labels, image_embedding, label_embeddings) ==
    LET keyed == [i \in 1..Len(labels) |->
                    [key |-> Dot(image_embedding,
                                 label_embeddings[labels[i]].value),
                     label |-> labels[i]]]
        sorted == SortDescending(keyed)
    IN  [i \in 1..Len(sorted) |-> sorted[i].label]

VARIABLES
    enabled,            \* EmbeddingStore.enabled
    connection,         \* EmbeddingStore._connection: "none" | "open"
    schema_ready,       \* EmbeddingStore._schema_ready
    lock,               \* EmbeddingStore._lock: 0 (free) or the holder
    image_cache,        \* clip_image_embedding_cache, by its primary key
    feedback,           \* clip_image_theme_feedback, by its primary key
    llm_cache,          \* clip_llm_label_expansion_cache, by its primary key
    label_cache,        \* clip_label_embedding_cache, by its primary key
    label_memo,         \* ClipClassifier._label_embeddings_cache
    requests,           \* classifications the event loop has started
    pc,                 \* each thread's position in its store operation
    call,               \* each thread's current store operation and arguments
    result,             \* the value the thread's store operation returned
    frame,              \* the public function the thread is in, its locals
    sent_statement,     \* per thread: its current store operation has sent
                        \* a statement to the backend
    started_disabled,   \* per thread: the store was disabled when its
                        \* current store operation was called
    backend_failed,     \* some connect, DDL batch or statement has failed
    last_saved,         \* per (hash, model): arguments of the latest
                        \* save_image_embedding the database executed
    issued,             \* per (hash, theme): record_feedback calls issued
    remote_calls,       \* per cache key: requests the remote collaborator got
    misses,             \* per cache key: enrichment lookups that found nothing
    encoded,            \* per label: times the text encoder computed it
    ddl_runs            \* times the DDL batch of _ensure_schema was begun

storeVars == <<enabled, connection, schema_ready, lock>>
tableVars == <<image_cache, feedback, llm_cache, label_cache>>
classifierVars == <<label_memo, requests>>
threadVars == <<pc, call, result, frame>>
runCounts == <<encoded, ddl_runs>>
ghostVars == <<sent_statement, started_disabled, backend_failed,
               last_saved, issued, remote_calls, misses,
               runCounts>>
vars == <<storeVars, tableVars, classifierVars,
                   threadVars, ghostVars>>

NoCall == [op |-> "none"]
NoFrame == [fn |-> "none"]
NeverSaved == [saved |-> FALSE, embedding |-> <<>>, asset_id |-> "NULL"]
NoneIssued == [total |-> 0, accepted |-> 0]

\* EmbeddingStore.__init__: enabled says whether DB_HOST, DB_USER and DB_NAME
\* are configured; no connection, schema not provisioned.  The database is
\* fresh.
Init ==
    /\ enabled \in BOOLEAN
    /\ connection = "none"
    /\ schema_ready = FALSE
    /\ lock = 0
    /\ image_cache = [h \in ImageHashes |-> NoImageRow]
    /\ feedback = [k \in Hashes \X StoredThemes |-> NoFeedbackRow]
    /\ pc = [p \in Threads |-> "idle"]
    /\ call = [p \in Threads |-> NoCall]
    /\ result = [p \in Threads |-> PyNone]
    /\ frame = [p \in Threads |-> NoFrame]
    /\ sent_statement = [p \in Threads |-> FALSE]
    /\ started_disabled = [p \in Threads |-> FALSE]
    /\ backend_failed = FALSE
    /\ last_saved = [k \in ImageHashes \X Models |-> NeverSaved]
    /\ issued = [k \in Hashes \X StoredThemes |-> NoneIssued]
    /\ llm_cache = [k \in CacheKeys |-> NoLlmRow]
    /\ label_cache = [k \in Models \X LabelTexts |-> NoLabelRow]
    /\ label_memo = NoEmbeddings
    /\ requests = 0
    /\ remote_calls = [k \in CacheKeys |-> 0]
    /\ misses = [k \in CacheKeys |-> 0]
    /\ encoded = [l \in LabelTexts |-> 0]
    /\ ddl_runs = 0

\* ------------------------------------------------- the store operations
\* What each operation returns when it gives up: None, {}, [] or 0.0.
MissValue(op) ==
    CASE op = "get_affinity_weight" -> Returned(ZeroWeight)
      [] op = "get_label_embeddings" -> Returned(NoEmbeddings)
      [] op = "list_image_embeddings" -> Returned(<<>>)
      [] OTHER -> PyNone

\* The argument test on each operation's first line, next to "not
\* self.enabled".
MissingArgument(c) ==
    CASE c.op \in {"get_image_embedding", "save_image_embedding"} ->
            c.image_hash = ""
      [] c.op \in {"get_affinity_weight", "record_feedback"} ->
            c.image_hash = "" \/ c.theme = <<>>
      [] c.op \in {"get_llm_expansion", "save_llm_expansion"} ->
            c.cache_key = <<>>
      [] c.op = "get_label_embeddings" -> c.labels = <<>>
      [] c.op = "save_label_embeddings" -> Keys(c.embeddings) = {}
      [] OTHER -> FALSE

\* "if not self.enabled or not <argument>: return <miss>"
GivesUpAtOnce(isEnabled, c) == ~isEnabled \/ MissingArgument(c)

\* A thread calls a store operation and runs its first lines: the guard,
\* then _ensure_schema's own "if not self.enabled: return" (the same flag,
\* read in the same step).
Enter(p, c) ==
    /\ call' = [call EXCEPT ![p] = c]
    /\ sent_statement' = [sent_statement EXCEPT ![p] = FALSE]
    /\ started_disabled' = [started_disabled EXCEPT ![p] = ~enabled]
    /\ IF GivesUpAtOnce(enabled, c)
       THEN /\ pc' = [pc EXCEPT ![p] = "return"]
            /\ result' = [result EXCEPT ![p] = MissValue(c.op)]
       ELSE /\ pc' = [pc EXCEPT ![p] = "lock"]
            /\ result' = [result EXCEPT ![p] = PyNone]

\* _ensure_schema: "with self._lock:" (blocks while another thread holds it)
AcquireLock(p) ==
    /\ pc[p] = "lock"
    /\ lock = 0
    /\ lock' = p
    /\ pc' = [pc EXCEPT ![p] = "schema"]
    /\ UNCHANGED <<enabled, connection, schema_ready, tableVars,
                   classifierVars, call, result, frame, ghostVars>>

\* _connect after its "if not self.enabled" test: the open connection is
\* reused; otherwise pymysql.connect either succeeds, or raises and the
\* except block drops the connection and disables the store.
AfterConnect(conn, isEnabled, outcome) ==
    IF conn = "open" \/ outcome = "ok"
    THEN [connection |-> "open", enabled |-> isEnabled]
    ELSE [connection |-> "none", enabled |-> FALSE]

\* Mutant of EnabledAfterDdlError: a failed DDL batch leaves the store on.
EnabledAfterDdlErrorKept(isEnabled) == isEnabled

\* _ensure_schema's "except Exception: self.enabled = False"
EnabledAfterDdlError(isEnabled) == FALSE

\* _ensure_schema under the lock, to the release of the lock:
\*   schema_ready                      -> return
\*   _connect() gives None             -> return (a failed connect disables)
\*   the DDL batch runs                -> schema_ready, or disabled on error
EnsureSchema(p) ==
    /\ pc[p] = "schema"
    /\ lock = p
    /\ lock' = 0
    /\ pc' = [pc EXCEPT ![p] = "connect"]
    /\ IF schema_ready \/ ~enabled
       THEN UNCHANGED <<enabled, connection, schema_ready, sent_statement,
                        backend_failed, ddl_runs>>
       ELSE \E connected \in {"ok", "fail"}, ddl \in {"ok", "fail"} :
            LET after == AfterConnect(connection, enabled, connected)
            IN  IF after.connection # "open"
                THEN /\ connection' = after.connection
                     /\ enabled' = after.enabled
                     /\ backend_failed' = TRUE
                     /\ UNCHANGED <<schema_ready, sent_statement, ddl_runs>>
                ELSE /\ connection' = "open"
                     /\ sent_statement' = [sent_statement EXCEPT ![p] = TRUE]
                     /\ ddl_runs' = ddl_runs + 1
                     /\ schema_ready' = (ddl = "ok")
                     /\ enabled' = IF ddl = "ok" THEN after.enabled
                                   ELSE EnabledAfterDdlError(after.enabled)
                     /\ backend_failed' = (backend_failed \/ ddl = "fail")
    /\ UNCHANGED <<tableVars, classifierVars, call, result, frame,
                   started_disabled, last_saved, issued, remote_calls,
                   misses, encoded>>

\* _connect() in the operation's body: None when disabled, the open
\* connection when there is one, a new connection otherwise.
Connect(p) ==
    /\ pc[p] = "connect"
    /\ IF ~enabled
       THEN /\ pc' = [pc EXCEPT ![p] = "return"]
            /\ result' = [result EXCEPT ![p] = MissValue(call[p].op)]
            /\ UNCHANGED <<enabled, connection, backend_failed>>
       ELSE \E connected \in {"ok", "fail"} :
            LET after == AfterConnect(connection, enabled, connected)
            IN  /\ connection' = after.connection
                /\ enabled' = after.enabled
                /\ backend_failed' =
                       (backend_failed \/ after.connection # "open")
                /\ IF after.connection = "open"
                   THEN /\ pc' = [pc EXCEPT ![p] = "exec"]
                        /\ UNCHANGED result
                   ELSE /\ pc' = [pc EXCEPT ![p] = "return"]
                        /\ result' = [result EXCEPT ![p] =
                                         MissValue(call[p].op)]
    /\ UNCHANGED <<schema_ready, lock, tableVars, classifierVars, call,
                   frame, sent_statement, started_disabled, last_saved,
                   issued, remote_calls, misses, runCounts>>

\* Mutant of OnStatementError: the exception is not caught.
OnStatementErrorRaised(op) == Raised

\* What the operation hands to its caller from "except Exception:".
OnStatementError(op) == MissValue(op)

\* An exception handed to a caller that has no try block goes on to the
\* caller's caller.
Propagates(res) == res.kind = "raise"

\* Mutant of EnabledAfterStatementError: the except block gives up without
\* disabling the store.
EnabledAfterStatementErrorKept(isEnabled) == isEnabled

\* The "except Exception: self.enabled = False" of every operation's
\* statement.
EnabledAfterStatementError(isEnabled) == FALSE

\* What a successful statement returns to the operation's caller.
StatementResult(c) ==
    CASE c.op = "get_image_embedding" ->
            SelectImageEmbedding(image_cache, c.image_hash, c.model_name)
      [] c.op = "get_affinity_weight" ->
            Returned(SelectAffinityWeight(feedback, c.image_hash, c.theme))
      [] c.op = "get_llm_expansion" ->
            SelectLlmExpansion(llm_cache, c.cache_key)
      [] c.op = "get_label_embeddings" ->
            Returned(SelectLabelEmbeddings(label_cache, c.model_name,
                                           c.labels))
      [] c.op = "list_image_embeddings" ->
            Returned(SelectImageEmbeddings(image_cache, c.model_name,
                                           c.limit))
      [] OTHER -> PyNone

\* The tables after a successful statement.
ImageCacheAfter(c) ==
    IF c.op = "save_image_embedding"
    THEN UpsertImageEmbedding(image_cache, c.image_hash, c.model_name,
                              c.embedding, c.asset_id)
    ELSE image_cache

\* Mutant of FeedbackAfter: reading the affinity weight counts as an
\* assignment.
FeedbackAfterCountsReads(c) ==
    IF c.op \in {"record_feedback", "get_affinity_weight"}
       /\ <<c.image_hash, c.theme>> \in DOMAIN feedback
    THEN UpsertFeedback(feedback, c.image_hash, c.theme, 0, "NULL")
    ELSE feedback

FeedbackAfter(c) ==
    IF c.op = "record_feedback"
    THEN UpsertFeedback(feedback, c.image_hash, c.theme,
                        IF c.accepted THEN 1 ELSE 0, c.asset_id)
    ELSE feedback

LlmCacheAfter(c) ==
    IF c.op = "save_llm_expansion"
    THEN UpsertLlmExpansion(llm_cache, c.cache_key, c.model_name,
                            c.top_labels, c.expansion_payload)
    ELSE llm_cache

LabelCacheAfter(c) ==
    IF c.op = "save_label_embeddings"
    THEN UpsertLabelEmbeddings(label_cache, c.model_name, c.embeddings)
    ELSE label_cache

LastSavedAfter(c) ==
    IF c.op = "save_image_embedding"
    THEN [last_saved EXCEPT ![<<c.image_hash, c.model_name>>] =
             [saved |-> TRUE, embedding |-> c.embedding,
              asset_id |-> c.asset_id]]
    ELSE last_saved

\* "with connection.cursor() as cursor: cursor.execute(sql, ...)": the one
\* statement of the operation, executed atomically by the database, or an
\* exception, on which the operation disables the store and gives up.
Execute(p) ==
    /\ pc[p] = "exec"
    /\ pc' = [pc EXCEPT ![p] = "return"]
    /\ sent_statement' = [sent_statement EXCEPT ![p] = TRUE]
    /\ \E outcome \in {"ok", "fail"} :
         IF outcome = "ok"
         THEN /\ image_cache' = ImageCacheAfter(call[p])
              /\ feedback' = FeedbackAfter(call[p])
              /\ llm_cache' = LlmCacheAfter(call[p])
              /\ label_cache' = LabelCacheAfter(call[p])
              /\ last_saved' = LastSavedAfter(call[p])
              /\ result' = [result EXCEPT ![p] = StatementResult(call[p])]
              /\ UNCHANGED <<enabled, backend_failed>>
         ELSE /\ enabled' = EnabledAfterStatementError(enabled)
              /\ backend_failed' = TRUE
              /\ result' = [result EXCEPT ![p] = OnStatementError(call[p].op)]
              /\ UNCHANGED <<tableVars, last_saved>>
    /\ UNCHANGED <<connection, schema_ready, lock, classifierVars, call,
                   frame, started_disabled, issued, remote_calls, misses, runCounts>>

\* ------------------------------------------------------ the public calls
\* The threads are interchangeable: they are numbered in the order of their
\* calls.
CanStart(p) ==
    /\ pc[p] = "idle"
    /\ \A q \in Threads \ {EventLoop} : q < p => pc[q] # "idle"

Start(p, fr) == frame' = [frame EXCEPT ![p] = fr]

\* A caller of EmbeddingStore.get_image_embedding
GetImageEmbedding(p) ==
    /\ CanStart(p)
    /\ \E h \in HashArgs, m \in Models :
         Enter(p, [op |-> "get_image_embedding", image_hash |-> h,
                   model_name |-> m])
    /\ Start(p, [fn |-> "store"])
    /\ UNCHANGED <<storeVars, tableVars, classifierVars,
                   backend_failed, last_saved, issued,
                   remote_calls, misses, runCounts>>

\* A caller of EmbeddingStore.save_image_embedding
SaveImageEmbedding(p) ==
    /\ CanStart(p)
    /\ \E h \in HashArgs, m \in Models, v \in Vectors, a \in AssetArgs :
         Enter(p, [op |-> "save_image_embedding", image_hash |-> h,
                   model_name |-> m, embedding |-> v, asset_id |-> a])
    /\ Start(p, [fn |-> "store"])
    /\ UNCHANGED <<storeVars, tableVars, classifierVars,
                   backend_failed, last_saved, issued,
                   remote_calls, misses, runCounts>>

\* A caller of EmbeddingStore.get_affinity_weight
GetAffinityWeight(p) ==
    /\ CanStart(p)
    /\ \E h \in HashArgs, t \in StoredThemes \cup {<<>>} :
         Enter(p, [op |-> "get_affinity_weight", image_hash |-> h,
                   theme |-> t])
    /\ Start(p, [fn |-> "store"])
    /\ UNCHANGED <<storeVars, tableVars, classifierVars,
                   backend_failed, last_saved, issued,
                   remote_calls, misses, runCounts>>

IssuedAfter(h, t, accepted) ==
    IF <<h, t>> \in DOMAIN issued
    THEN [issued EXCEPT ![<<h, t>>] =
             [total |-> @.total + 1,
              accepted |-> @.accepted + IF accepted THEN 1 ELSE 0]]
    ELSE issued

\* classifier.register_pack_feedback: record_feedback under the normalized
\* theme.
RegisterPackFeedback(p) ==
    /\ CanStart(p)
    /\ \E h \in Hashes, t \in ThemeArgs, accepted \in BOOLEAN,
          a \in FeedbackAssetArgs :
         /\ Enter(p, [op |-> "record_feedback", image_hash |-> h,
                      theme |-> NormalizeTheme(t), accepted |-> accepted,
                      asset_id |-> a])
         /\ issued' = IssuedAfter(h, NormalizeTheme(t), accepted)
    /\ Start(p, [fn |-> "store"])
    /\ UNCHANGED <<storeVars, tableVars, classifierVars,
                   backend_failed, last_saved,
                   remote_calls, misses, runCounts>>

\* The thread's public call is over: its locals are dropped.
Finish(p) ==
    /\ pc' = [pc EXCEPT ![p] = "done"]
    /\ call' = [call EXCEPT ![p] = NoCall]
    /\ result' = [result EXCEPT ![p] = PyNone]
    /\ frame' = [frame EXCEPT ![p] = NoFrame]
    /\ sent_statement' = [sent_statement EXCEPT ![p] = FALSE]
    /\ started_disabled' = [started_disabled EXCEPT ![p] = FALSE]

\* The store operation returns to a caller that does nothing more with it.
Return(p) ==
    /\ pc[p] = "return"
    /\ frame[p].fn = "store"
    /\ Finish(p)
    /\ UNCHANGED <<storeVars, tableVars, classifierVars,
                   backend_failed, last_saved, issued,
                   remote_calls, misses, runCounts>>

StoreStep(p) ==
    \/ AcquireLock(p)
    \/ EnsureSchema(p)
    \/ Connect(p)
    \/ Execute(p)

NextImage ==
    \E p \in StoreCallers :
        \/ GetImageEmbedding(p)
        \/ SaveImageEmbedding(p)
        \/ StoreStep(p)
        \/ Return(p)

\* Threads that save and read image embeddings.
SpecImage == Init /\ [][NextImage]_vars

NextFeedback ==
    \E p \in StoreCallers :
        \/ RegisterPackFeedback(p)
        \/ GetAffinityWeight(p)
        \/ StoreStep(p)
        \/ Return(p)

\* Threads that register feedback and read affinity weights.
SpecFeedback == Init /\ [][NextFeedback]_vars

\* ------------------------------------------------------------ enrichment
\* Some call of expand_labels_with_llm has come back after its request to the
\* remote collaborator raised.
FailureReturned ==
    \E o \in Threads : /\ frame[o].fn = "expand"
                       /\ frame[o].at = "returned"
                       /\ frame[o].failed

\* A frame of expand_labels_with_llm.  failed says that the request to the
\* remote collaborator raised; after_failure, that the call began when
\* another one had come back from such a request.  at is where the call stands:
\* "lookup" (in store.get_llm_expansion), "remote" (client built, request not
\* yet sent), "save" (in store.save_llm_expansion), "returned" (value is what
\* the caller got) or "raised" (an exception reached the caller).
ExpandFrame(at, isEnabled, api_key, clean_labels, entry_at_call, invoked, value) ==
    [fn |-> "expand", at |-> at, enabled |-> isEnabled, api_key |-> api_key,
     clean_labels |-> clean_labels, entry_at_call |-> entry_at_call,
     invoked |-> invoked, failed |-> FALSE,
     after_failure |-> FailureReturned, source |-> PyNone, value |-> value]

FrameKey(fr) == BuildCacheKey(LlmExpansionModel, fr.clean_labels)

\* The thread is in expand_labels_with_llm, called directly or by
\* classify_pil.
Expanding(p) == frame[p].fn \in {"expand", "classify"}

\* Where a frame stands when expand_labels_with_llm has returned: a direct
\* caller has its value, classify_pil goes on.
AtAfterExpand(fr) == IF fr.fn = "expand" THEN "returned" ELSE "expanded"

\* An exception goes through the frame of thread p to its caller.
RaiseToCaller(p) ==
    /\ frame' = [frame EXCEPT ![p] = [@ EXCEPT !.at = "raised"]]
    /\ pc' = [pc EXCEPT ![p] = "run"]
    /\ UNCHANGED <<storeVars, tableVars, classifierVars, call, result,
                   ghostVars>>

\* expand_labels_with_llm, lines 92-104: the early returns, or the call of
\* store.get_llm_expansion.  api_key says whether OPENAI_API_KEY is set.
ExpandLabelsWithLlm(p) ==
    /\ CanStart(p)
    /\ \E top_labels \in TopLabelArgs, isEnabled \in BOOLEAN,
          api_key \in BOOLEAN :
         LET clean_labels == CleanLabels(top_labels)
             cache_key == BuildCacheKey(LlmExpansionModel, clean_labels)
             entry == clean_labels # <<>> /\ llm_cache[cache_key].present
         IN  IF ExpandReturnsEmpty(isEnabled, clean_labels, api_key)
             THEN /\ Start(p, ExpandFrame("returned", isEnabled, api_key,
                                          clean_labels, entry, 0,
                                          EmptyExpansion))
                  /\ pc' = [pc EXCEPT ![p] = "run"]
                  /\ UNCHANGED <<call, result, sent_statement,
                                 started_disabled>>
             ELSE /\ Start(p, ExpandFrame("lookup", isEnabled, api_key,
                                          clean_labels, entry, 0,
                                          EmptyExpansion))
                  /\ Enter(p, [op |-> "get_llm_expansion",
                               cache_key |-> cache_key])
    /\ UNCHANGED <<storeVars, tableVars, classifierVars, backend_failed,
                   last_saved, issued, remote_calls, misses, runCounts>>

\* Lines 105-108: the lookup is back.  A dict is normalized and returned;
\* otherwise the client is built, and OpenAI(...) either gives a client or
\* raises, outside any try block.
ExpandAfterLookup(p) ==
    /\ pc[p] = "return"
    /\ Expanding(p)
    /\ frame[p].at = "lookup"
    /\ IF Propagates(result[p]) THEN RaiseToCaller(p)
       ELSE
       /\ pc' = [pc EXCEPT ![p] = "run"]
       /\ IF IsCacheHit(result[p])
          THEN /\ frame' = [frame EXCEPT ![p] =
                              [@ EXCEPT !.at = AtAfterExpand(frame[p]),
                                        !.source = result[p],
                                        !.value =
                                            NormalizePayload(result[p])]]
               /\ UNCHANGED misses
          ELSE /\ misses' = [misses EXCEPT ![FrameKey(frame[p])] = @ + 1]
               /\ \E client \in {"built", "raise"} :
                    frame' = [frame EXCEPT ![p] =
                       [@ EXCEPT !.at = IF client = "built" THEN "remote"
                                        ELSE "raised"]]
       /\ UNCHANGED <<storeVars, tableVars, classifierVars, call, result,
                      sent_statement, started_disabled, backend_failed,
                      last_saved, issued, remote_calls, runCounts>>

\* Lines 121-143: the request to the remote collaborator, its answer or
\* exception turned into the normalized payload, and the call of
\* store.save_llm_expansion with it.
ExpandRemoteCall(p) ==
    /\ pc[p] = "run"
    /\ Expanding(p)
    /\ frame[p].at = "remote"
    /\ \E answer \in RemoteOutcomes :
         /\ remote_calls' = [remote_calls EXCEPT ![FrameKey(frame[p])] =
                                @ + RemoteRequests(answer)]
         /\ frame' = [frame EXCEPT ![p] =
                        [@ EXCEPT !.at = "save",
                                  !.invoked = @ + RemoteRequests(answer),
                                  !.failed = (answer.kind = "raise"),
                                  !.source = ParsedAnswer(answer),
                                  !.value = NormalizedAnswer(answer)]]
         /\ Enter(p, [op |-> "save_llm_expansion",
                      cache_key |-> FrameKey(frame[p]),
                      model_name |-> LlmExpansionModel,
                      top_labels |-> frame[p].clean_labels,
                      expansion_payload |-> NormalizedAnswer(answer)])
    /\ UNCHANGED <<storeVars, tableVars, classifierVars, backend_failed,
                   last_saved, issued, misses, runCounts>>

\* Line 144: "return normalized"
ExpandAfterSave(p) ==
    /\ pc[p] = "return"
    /\ Expanding(p)
    /\ frame[p].at = "save"
    /\ IF Propagates(result[p]) THEN RaiseToCaller(p)
       ELSE
       /\ pc' = [pc EXCEPT ![p] = "run"]
       /\ frame' = [frame EXCEPT ![p] =
                       [@ EXCEPT !.at = AtAfterExpand(frame[p])]]
       /\ UNCHANGED <<storeVars, tableVars, classifierVars, call, result,
                      ghostVars>>

\* The caller of expand_labels_with_llm has its value, or its exception.
ExpandOver(p) ==
    /\ pc[p] = "run"
    /\ frame[p].fn = "expand"
    /\ frame[p].at \in {"returned", "raised"}
    /\ Finish(p)
    /\ UNCHANGED <<storeVars, tableVars, classifierVars, backend_failed,
                   last_saved, issued, remote_calls, misses, runCounts>>

ExpandStep(p) ==
    \/ ExpandAfterLookup(p)
    \/ ExpandRemoteCall(p)
    \/ ExpandAfterSave(p)

NextExpand ==
    \E p \in ExpandCallers :
        \/ ExpandLabelsWithLlm(p)
        \/ StoreStep(p)
        \/ ExpandStep(p)
        \/ ExpandOver(p)

\* Threads that ask for the enrichment of label lists.
SpecExpand == Init /\ [][NextExpand]_vars

\* -------------------------------------------------------- classification
ClassifyLabelArgs == {<< <<" ", "b">>, <<"B">>, <<"a">> >>}
ClassifyThemeArgs == {<<>>, <<" ", "T">>}

\* Label lists that are empty after normalization.
EmptyLabelArgs == {<<>>, << <<" ">>, <<>> >>}

\* The payload of a request: no bytes, or those of an image.
ImageBytesArgs == {"", "image"}

\* Mutant of InvalidRequest: nothing is validated.
InvalidRequestAccepted(image_bytes, clean_labels) == FALSE

\* The ValueError of classify_image_bytes, lines 579-580 ("if not
\* image_bytes"), or of _normalize_labels, lines 243-244 ("if not clean"),
\* which classify_pil calls first.
InvalidRequest(image_bytes, clean_labels) ==
    image_bytes = "" \/ clean_labels = <<>>

NoResponse == [category |-> <<>>, affinity_weight |-> ZeroWeight,
               all_scores |-> "base_scores",
               llm_expansion |-> EmptyExpansion, similar_images |-> <<>>,
               image_hash |-> "", model_name |-> ""]

\* The thread calls no store operation and goes on with res in the place
\* of an operation's result.
Skip(p, res) ==
    /\ pc' = [pc EXCEPT ![p] = "return"]
    /\ result' = [result EXCEPT ![p] = res]
    /\ call' = [call EXCEPT ![p] = NoCall]
    /\ sent_statement' = [sent_statement EXCEPT ![p] = FALSE]
    /\ started_disabled' = [started_disabled EXCEPT ![p] = FALSE]

\* classify_image_bytes, lines 579-582, and classify_pil, lines 398-402,
\* into ClipClassifier.get_image_embedding, lines 371-372: an empty payload
\* is refused before its hash is taken and an empty label list before the
\* theme is looked at; otherwise the labels and the theme are normalized and
\* the cached embedding is asked for.  The frame's fields are the locals of
\* classify_pil and of the functions it calls; store_down notes that the
\* store was disabled when the classification began, image_encoded that the
\* image encoder was run, effective_scores which map the local of that name
\* is: base_scores itself or what apply_adaptive_scores made of it.  requests counts the classifications that got past
\* the validation.
Classify(p) ==
    /\ p = EventLoop
    /\ pc[p] = "idle"
    /\ requests < NumClassifyCalls
    /\ \E h \in ImageHashes, image_bytes \in ImageBytesArgs,
          labels \in ClassifyLabelArgs \cup EmptyLabelArgs,
          theme \in ClassifyThemeArgs, api_key \in BOOLEAN :
         LET clean_labels == NormalizeLabels(labels)
             locals == [fn |-> "classify", at |-> "image_lookup",
                        image_bytes |-> image_bytes,
                        image_hash |-> h, theme |-> NormalizeTheme(theme),
                        labels |-> clean_labels,
                        image_embedding |-> <<>>, image_encoded |-> FALSE,
                        missing |-> <<>>,
                        out |-> NoEmbeddings, ordered |-> <<>>,
                        affinity_weight |-> ZeroWeight,
                        effective_scores |-> "base_scores",
                        enabled |-> EnableLlmLabelExpansion,
                        api_key |-> api_key, clean_labels |-> <<>>,
                        entry_at_call |-> FALSE, invoked |-> 0,
                        failed |-> FALSE, source |-> PyNone,
                        value |-> EmptyExpansion, store_down |-> ~enabled,
                        response |-> NoResponse]
         IN  IF InvalidRequest(image_bytes, clean_labels)
             THEN /\ Start(p, [locals EXCEPT
                               !.at = "raised",
                               !.image_hash =
                                   IF image_bytes = "" THEN "" ELSE h,
                               !.labels =
                                   IF image_bytes = "" THEN <<>> ELSE @,
                               !.theme = <<>>, !.api_key = FALSE])
                  /\ pc' = [pc EXCEPT ![p] = "run"]
                  /\ UNCHANGED <<requests, call, result, sent_statement,
                                 started_disabled>>
             ELSE /\ requests' = requests + 1
                  /\ Start(p, locals)
                  /\ IF EnableEmbeddingCache /\ h # ""
                     THEN Enter(p, [op |-> "get_image_embedding",
                                    image_hash |-> h,
                                    model_name |-> ClipModelName])
                     ELSE Skip(p, PyNone)
    /\ UNCHANGED <<storeVars, tableVars, label_memo, backend_failed,
                   last_saved, issued, remote_calls, misses, runCounts>>

\* Mutant of IsImageHit: no cached vector is taken.
IsImageHitNever(cached) == FALSE

\* ClipClassifier.get_image_embedding, line 374:
\* "if cached is not None and cached.size > 0"
IsImageHit(cached) == cached.kind = "value" /\ cached.value # <<>>

\* ClipClassifier.get_image_embedding, lines 373-383: a non-empty cached
\* vector is taken; otherwise the image is encoded and the vector saved.
ClassifyAfterImageLookup(p) ==
    /\ pc[p] = "return"
    /\ frame[p].fn = "classify"
    /\ frame[p].at = "image_lookup"
    /\ IF Propagates(result[p]) THEN RaiseToCaller(p)
       ELSE
       /\ IF IsImageHit(result[p])
          THEN /\ frame' = [frame EXCEPT ![p] =
                              [@ EXCEPT !.at = "image_ready",
                                        !.image_embedding =
                                            Float32Vector(result[p].value)]]
               /\ UNCHANGED <<pc, call, result, sent_statement,
                              started_disabled>>
          ELSE LET computed == ComputeImageEmbedding(frame[p].image_hash)
               IN  /\ frame' = [frame EXCEPT ![p] =
                                  [@ EXCEPT !.at = "image_ready",
                                            !.image_encoded = TRUE,
                                            !.image_embedding = computed]]
                   /\ IF EnableEmbeddingCache /\ frame[p].image_hash # ""
                      THEN Enter(p, [op |-> "save_image_embedding",
                                     image_hash |-> frame[p].image_hash,
                                     model_name |-> ClipModelName,
                                     embedding |-> computed,
                                     asset_id |-> "NULL"])
                      ELSE Skip(p, PyNone)
       /\ UNCHANGED <<storeVars, tableVars, classifierVars, backend_failed,
                      last_saved, issued, remote_calls, misses, runCounts>>

\* ClipClassifier.get_label_embeddings, lines 335-348: under _label_lock the
\* memo gives what it has; the store is asked for the rest.
ClassifyLabels(p) ==
    /\ pc[p] = "return"
    /\ frame[p].fn = "classify"
    /\ frame[p].at = "image_ready"
    /\ IF Propagates(result[p]) THEN RaiseToCaller(p)
       ELSE
       LET missing == Without(frame[p].labels, Keys(label_memo))
           out == [l \in LabelTexts |->
                     IF l \in Elements(frame[p].labels) THEN label_memo[l]
                     ELSE PyNone]
       IN  /\ frame' = [frame EXCEPT ![p] =
                          [@ EXCEPT !.at = "label_lookup",
                                    !.missing = missing, !.out = out]]
           /\ IF missing # <<>> /\ EnableEmbeddingCache
              THEN Enter(p, [op |-> "get_label_embeddings",
                             model_name |-> ClipModelName,
                             labels |-> missing])
              ELSE Skip(p, Returned(NoEmbeddings))
           /\ UNCHANGED <<storeVars, tableVars, classifierVars,
                          backend_failed, last_saved, issued, remote_calls,
                          misses, runCounts>>

\* Lines 349-357: the persisted vectors are taken, the labels still missing
\* are encoded, and what was encoded is saved.
ClassifyAfterLabelLookup(p) ==
    /\ pc[p] = "return"
    /\ frame[p].fn \in {"classify", "labels"}
    /\ frame[p].at = "label_lookup"
    /\ IF Propagates(result[p]) THEN RaiseToCaller(p)
       ELSE
       LET persisted == result[p].value
           missing == Without(frame[p].missing, Keys(persisted))
           computed == ComputeLabelEmbeddings(missing)
           out == Update(Update(frame[p].out, persisted), computed)
       IN  /\ frame' = [frame EXCEPT ![p] =
                          [@ EXCEPT !.at = "label_save",
                                    !.missing = missing, !.out = out]]
           /\ IF missing # <<>> /\ EnableEmbeddingCache
                 /\ Keys(computed) # {}
              THEN Enter(p, [op |-> "save_label_embeddings",
                             model_name |-> ClipModelName,
                             embeddings |-> computed])
              ELSE Skip(p, PyNone)
           /\ encoded' = [l \in LabelTexts |->
                             IF l \in Elements(missing) THEN encoded[l] + 1
                             ELSE encoded[l]]
           /\ UNCHANGED <<storeVars, tableVars, classifierVars,
                          backend_failed, last_saved, issued, remote_calls,
                          misses, ddl_runs>>

\* Mutant of ConsultsFeedback: the weight is always asked for.
ConsultsFeedbackAlways(image_hash, theme) == TRUE

\* classify_pil, line 414:
\* "if ENABLE_ADAPTIVE_SCORING and image_hash and normalized_theme"
ConsultsFeedback(image_hash, theme) ==
    EnableAdaptiveScoring /\ image_hash # "" /\ theme # <<>>

\* Lines 359-362 of get_label_embeddings and 405-415 of classify_pil: the
\* memo is updated under _label_lock, the labels are scored, and the affinity
\* weight is asked for when there are a hash and a theme.
ClassifyScore(p) ==
    /\ pc[p] = "return"
    /\ frame[p].fn = "classify"
    /\ frame[p].at = "label_save"
    /\ IF Propagates(result[p]) THEN RaiseToCaller(p)
       ELSE
       /\ label_memo' = Update(label_memo, frame[p].out)
       /\ frame' = [frame EXCEPT ![p] =
                      [@ EXCEPT !.at = "affinity",
                                !.missing = <<>>,
                                !.out = NoEmbeddings,
                                !.ordered =
                                    OrderedLabels(frame[p].labels,
                                                  frame[p].image_embedding,
                                                  frame[p].out)]]
       /\ IF ConsultsFeedback(frame[p].image_hash, frame[p].theme)
          THEN Enter(p, [op |-> "get_affinity_weight",
                         image_hash |-> frame[p].image_hash,
                         theme |-> frame[p].theme])
          ELSE Skip(p, Returned(ZeroWeight))
       /\ UNCHANGED <<storeVars, tableVars, requests, backend_failed,
                      last_saved, issued, remote_calls, misses, runCounts>>

\* Lines 416-452: the affinity weight is back; the top labels (at most
\* CLIP_TOP_K, of which the first three) go to expand_labels_with_llm, whose
\* first lines (92-104) run.
ClassifyExpand(p) ==
    /\ pc[p] = "return"
    /\ frame[p].fn = "classify"
    /\ frame[p].at = "affinity"
    /\ IF Propagates(result[p]) THEN RaiseToCaller(p)
       ELSE
       LET top_labels == Prefix(Prefix(frame[p].ordered, ClipTopK),
                                MaxTopLabels)
           clean_labels == CleanLabels(top_labels)
           cache_key == BuildCacheKey(LlmExpansionModel, clean_labels)
           entry == clean_labels # <<>> /\ llm_cache[cache_key].present
           fr == [frame[p] EXCEPT !.affinity_weight = result[p].value,
                                  !.effective_scores =
                                      IF ConsultsFeedback(frame[p].image_hash,
                                                          frame[p].theme)
                                      THEN "apply_adaptive_scores"
                                      ELSE @,
                                  !.clean_labels = clean_labels,
                                  !.entry_at_call = entry]
       IN  /\ IF ExpandReturnsEmpty(frame[p].enabled, clean_labels,
                                    frame[p].api_key)
              THEN /\ Start(p, [fr EXCEPT !.at = "expanded"])
                   /\ pc' = [pc EXCEPT ![p] = "run"]
                   /\ UNCHANGED <<call, result, sent_statement,
                                  started_disabled>>
              ELSE /\ Start(p, [fr EXCEPT !.at = "lookup"])
                   /\ Enter(p, [op |-> "get_llm_expansion",
                                cache_key |-> cache_key])
           /\ UNCHANGED <<storeVars, tableVars, classifierVars,
                          backend_failed, last_saved, issued, remote_calls,
                          misses, runCounts>>

\* Lines 454-466, into find_similar_images: the persisted embeddings of the
\* model are listed.
ClassifySimilar(p) ==
    /\ pc[p] = "run"
    /\ frame[p].fn = "classify"
    /\ frame[p].at = "expanded"
    /\ Start(p, [frame[p] EXCEPT !.at = "similar"])
    /\ IF EnableClustering /\ EnableEmbeddingCache
          /\ frame[p].image_embedding # <<>>
       THEN Enter(p, [op |-> "list_image_embeddings",
                      model_name |-> ClipModelName,
                      limit |-> SimilarityScanLimit])
       ELSE Skip(p, Returned(<<>>))
    /\ UNCHANGED <<storeVars, tableVars, classifierVars, backend_failed,
                   last_saved, issued, remote_calls, misses, runCounts>>

\* What find_similar_images makes of the rows the store listed for the
\* classification of thread p.
SimilarFound(p) ==
    FindSimilarImages(result[p].value, frame[p].image_embedding,
                      SimilarityThresholdDefault, SimilarityLimitDefault,
                      frame[p].image_hash)

\* The rest of find_similar_images and lines 468-484: the result, or the
\* exception of find_similar_images, which classify_pil does not catch.
ClassifyReturn(p) ==
    /\ pc[p] = "return"
    /\ frame[p].fn = "classify"
    /\ frame[p].at = "similar"
    /\ IF Propagates(result[p]) \/ Propagates(SimilarFound(p))
       THEN RaiseToCaller(p)
       ELSE
       /\ pc' = [pc EXCEPT ![p] = "run"]
       /\ frame' = [frame EXCEPT ![p] =
            [@ EXCEPT !.at = "returned",
                      !.response =
                         [category |-> frame[p].ordered[1],
                          affinity_weight |-> frame[p].affinity_weight,
                          all_scores |-> frame[p].effective_scores,
                          llm_expansion |-> frame[p].value,
                          similar_images |-> SimilarFound(p).value,
                          image_hash |-> frame[p].image_hash,
                          model_name |-> ClipModelName]]]
       /\ UNCHANGED <<storeVars, tableVars, classifierVars, call, result,
                      ghostVars>>

\* The request is answered, with the result or with an error; the event loop
\* is free for the next one.
ClassifyOver(p) ==
    /\ pc[p] = "run"
    /\ frame[p].fn = "classify"
    /\ frame[p].at \in {"returned", "raised"}
    /\ pc' = [pc EXCEPT ![p] = "idle"]
    /\ call' = [call EXCEPT ![p] = NoCall]
    /\ result' = [result EXCEPT ![p] = PyNone]
    /\ frame' = [frame EXCEPT ![p] = NoFrame]
    /\ sent_statement' = [sent_statement EXCEPT ![p] = FALSE]
    /\ started_disabled' = [started_disabled EXCEPT ![p] = FALSE]
    /\ UNCHANGED <<storeVars, tableVars, classifierVars, backend_failed,
                   last_saved, issued, remote_calls, misses, runCounts>>

ClassifyStep(p) ==
    \/ ClassifyAfterImageLookup(p)
    \/ ClassifyLabels(p)
    \/ ClassifyAfterLabelLookup(p)
    \/ ClassifyScore(p)
    \/ ClassifyExpand(p)
    \/ ClassifySimilar(p)
    \/ ClassifyReturn(p)

NextClassify ==
    \/ Classify(EventLoop)
    \/ ClassifyStep(EventLoop)
    \/ ExpandStep(EventLoop)
    \/ ClassifyOver(EventLoop)
    \/ StoreStep(EventLoop)
    \/ RegisterPackFeedback(FeedbackWorker)
    \/ StoreStep(FeedbackWorker)
    \/ Return(FeedbackWorker)

\* The event loop serving classifications while a pool thread registers a
\* feedback.
SpecClassify == Init /\ [][NextClassify]_vars

\* ------------------------------------------------ get_label_embeddings
\* The label lists given to classifier.get_label_embeddings.
LabelCallArgs == {<< <<"a">> >>, << <<" ", "b">>, <<"a">>, <<"A">> >>}

\* classifier.get_label_embeddings (lines 509-511) into
\* ClipClassifier.get_label_embeddings, lines 335-348: the labels are
\* normalized, under _label_lock the memo gives what it has, and the store
\* is asked for the rest.
GetLabelEmbeddings(p) ==
    /\ CanStart(p)
    /\ \E labels \in LabelCallArgs :
         LET clean_labels == NormalizeLabels(labels)
             missing == Without(clean_labels, Keys(label_memo))
             out == [l \in LabelTexts |->
                       IF l \in Elements(clean_labels) THEN label_memo[l]
                       ELSE PyNone]
         IN  /\ Start(p, [fn |-> "labels", at |-> "label_lookup",
                          labels |-> clean_labels, missing |-> missing,
                          out |-> out])
             /\ IF missing # <<>> /\ EnableEmbeddingCache
                THEN Enter(p, [op |-> "get_label_embeddings",
                               model_name |-> ClipModelName,
                               labels |-> missing])
                ELSE Skip(p, Returned(NoEmbeddings))
    /\ UNCHANGED <<storeVars, tableVars, classifierVars, backend_failed,
                   last_saved, issued, remote_calls, misses,
                   runCounts>>

\* Lines 359-362: under _label_lock the memo is updated with what the call
\* gathered, and the embeddings of the labels are returned.
LabelsUpdateMemo(p) ==
    /\ pc[p] = "return"
    /\ frame[p].fn = "labels"
    /\ frame[p].at = "label_save"
    /\ IF Propagates(result[p]) THEN RaiseToCaller(p)
       ELSE
       /\ label_memo' = Update(label_memo, frame[p].out)
       /\ frame' = [frame EXCEPT ![p] = [@ EXCEPT !.at = "returned"]]
       /\ pc' = [pc EXCEPT ![p] = "run"]
       /\ UNCHANGED <<storeVars, tableVars, requests, call, result,
                      ghostVars>>

\* The caller of get_label_embeddings has its dict.
LabelsOver(p) ==
    /\ pc[p] = "run"
    /\ frame[p].fn = "labels"
    /\ frame[p].at \in {"returned", "raised"}
    /\ Finish(p)
    /\ UNCHANGED <<storeVars, tableVars, classifierVars, backend_failed,
                   last_saved, issued, remote_calls, misses,
                   runCounts>>

NextLabels ==
    \E p \in LabelCallers :
        \/ GetLabelEmbeddings(p)
        \/ StoreStep(p)
        \/ ClassifyAfterLabelLookup(p)
        \/ LabelsUpdateMemo(p)
        \/ LabelsOver(p)

\* Threads that ask for label embeddings at the same time.
SpecLabels == Init /\ [][NextLabels]_vars

\* -------------------------------------------------- find_similar_images
\* A SimilarImageRow as list_image_embeddings gives it.
Row(h, v) == [image_hash |-> h, asset_id |-> "NULL", embedding |-> v]

\* What the store may list, latest first: nothing; the query's own image;
\* images at similarities 1, 0.8615384... and 0.96 to the query <<8, 6>>;
\* an empty vector; a vector of another length (save_image_embedding stores
\* what it is given); a zero vector; equal vectors.
SimilarRowArgs ==
    {<<>>,
     <<Row("h1", <<8, 6>>)>>,
     <<Row("h1", <<8, 6>>), Row("h2", <<10, 24>>), Row("h3", <<6, 8>>)>>,
     <<Row("h2", <<10, 24>>), Row("h3", <<8, 6>>), Row("h4", <<6, 8>>)>>,
     <<Row("h2", <<>>), Row("h3", <<6, 8>>)>>,
     <<Row("h2", <<6>>), Row("h3", <<6, 8>>)>>,
     <<Row("h1", <<6>>), Row("h3", <<8, 6>>)>>,
     <<Row("h2", <<0, 0>>)>>,
     <<Row("h2", <<6, 8>>), Row("h3", <<6, 8>>), Row("h1", <<8, 6>>)>>}

SimilarQueryArgs == {<<8, 6>>, <<4, 0>>}

\* 0, 0.85, 0.8615384 and 1.0 in score units.
SimilarThresholdArgs == {0, 8500000, 8615384, 10000000}

SimilarLimitArgs == {-1, 0, 1, 2, 25}

SimilarSourceArgs == {"", "h1"}

\* find_similar_images, called on what the store listed; out is what it
\* returns or raises.
FindSimilar(p) ==
    /\ p = EventLoop
    /\ pc[p] = "idle"
    /\ \E rows \in SimilarRowArgs, image_embedding \in SimilarQueryArgs,
          threshold \in SimilarThresholdArgs, limit \in SimilarLimitArgs,
          source_image_hash \in SimilarSourceArgs :
         Start(p, [fn |-> "find_similar", rows |-> rows,
                   image_embedding |-> image_embedding,
                   threshold |-> threshold, limit |-> limit,
                   source_image_hash |-> source_image_hash,
                   out |-> FindSimilarImages(rows, image_embedding,
                                             threshold, limit,
                                             source_image_hash)])
    /\ pc' = [pc EXCEPT ![p] = "run"]
    /\ UNCHANGED <<storeVars, tableVars, classifierVars, call, result,
                   ghostVars>>

\* The caller has the list, or the exception.
SimilarOver(p) ==
    /\ pc[p] = "run"
    /\ frame[p].fn = "find_similar"
    /\ pc' = [pc EXCEPT ![p] = "idle"]
    /\ frame' = [frame EXCEPT ![p] = NoFrame]
    /\ UNCHANGED <<storeVars, tableVars, classifierVars, call, result,
                   ghostVars>>

NextSimilar == FindSimilar(EventLoop) \/ SimilarOver(EventLoop)

\* Similarity searches, one after the other.
SpecSimilar == Init /\ [][NextSimilar]_vars

\* ------------------------------------------------ apply_adaptive_scores
RECURSIVE Pow2(_)
Pow2(n) == IF n = 0 THEN 1 ELSE 2 * Pow2(n - 1)

\* 1.0
FloatOne == Pow2(FloatScale)

\* The spacing of the floating-point numbers around n / d >= 0.
RECURSIVE UlpOf(_, _, _)
UlpOf(n, d, u) ==
    IF n < Pow2(FloatPrecision) * d * u THEN u ELSE UlpOf(n, d, 2 * u)

\* n / d to the nearest whole number, a tie to the even one.
RoundHalfEven(n, d) ==
    LET q == n \div d
        r == n % d
    IN  IF 2 * r > d \/ (2 * r = d /\ q % 2 = 1) THEN q + 1 ELSE q

\* n / d, d > 0, rounded to the nearest floating-point number; the rounding
\* of a negative number mirrors that of its absolute value.
RoundFloat(n, d) ==
    LET m == IF n < 0 THEN -n ELSE n
        u == UlpOf(m, d, 1)
        r == u * RoundHalfEven(m, d * u)
    IN  IF n < 0 THEN -r ELSE r

\* The float operations *, + and /, each rounding its exact result.
FloatMul(a, b) == RoundFloat(a * b, FloatOne)
FloatAdd(a, b) == RoundFloat(a + b, 1)
FloatDiv(a, b) == RoundFloat(a * FloatOne, b)

\* Mutant of AdjustedScore: the boost is added to the score.
AdjustedScoreAdditive(clip_score, affinity_weight, alpha) ==
    FloatAdd(clip_score, FloatMul(affinity_weight, alpha))

\* adaptive_scoring.adjusted_score
AdjustedScore(clip_score, affinity_weight, alpha) ==
    FloatMul(clip_score, FloatAdd(FloatOne, FloatMul(affinity_weight, alpha)))

\* Mutant of Max0: the value is not clamped.
Unclamped(value) == value

\* max(0.0, value)
Max0(value) == IF value > 0 THEN value ELSE 0

\* sum(max(0.0, float(value)) for value in ...): the values are added in
\* order, each addition rounding.
RECURSIVE FloatSumClamped(_)
FloatSumClamped(values) ==
    IF values = <<>> THEN 0
    ELSE FloatAdd(FloatSumClamped(SubSeq(values, 1, Len(values) - 1)),
                  Max0(values[Len(values)]))

\* The 1e-12 of "if total <= 1e-12", which is below the smallest positive
\* number of the model.
TotalEpsilon == 0

\* The boosted scores of apply_adaptive_scores; a dict is the sequence of
\* its values in the order of its keys.
Boosted(base_scores, affinity_weight, alpha) ==
    [i \in 1..Len(base_scores) |->
        AdjustedScore(base_scores[i], affinity_weight, alpha)]

\* Mutant of ApplyAdaptiveScores: the boosted scores are not renormalized.
ApplyAdaptiveScoresUnnormalized(base_scores, affinity_weight, alpha) ==
    Boosted(base_scores, affinity_weight, alpha)

\* adaptive_scoring.apply_adaptive_scores
ApplyAdaptiveScores(base_scores, affinity_weight, alpha) ==
    IF base_scores = <<>> THEN <<>>
    ELSE LET boosted == Boosted(base_scores, affinity_weight, alpha)
             total == FloatSumClamped(boosted)
         IN  IF total <= TotalEpsilon
             THEN [i \in 1..Len(boosted) |-> 0]
             ELSE [i \in 1..Len(boosted) |->
                      FloatDiv(Max0(boosted[i]), total)]

\* Base scores -1/8, 0, 1/8, 3/8, 1/2 and 1; affinity weights 0, 1/2 and 1;
\* alpha -2, 0, 1/4 and 1.
ScoreArgs ==
    {-(FloatOne \div 8), 0, FloatOne \div 8, 3 * (FloatOne \div 8),
     FloatOne \div 2, FloatOne}
MaxScores == 3
BaseScoreArgs == UNION {[1..n -> ScoreArgs] : n \in 0..MaxScores}
AffinityArgs == {0, FloatOne \div 2, FloatOne}
AlphaArgs == {-2 * FloatOne, 0, FloatOne \div 4, FloatOne}

\* apply_adaptive_scores, called on a map of base scores; out is the map it
\* returns.
ApplyAdaptive(p) ==
    /\ p = EventLoop
    /\ pc[p] = "idle"
    /\ \E base_scores \in BaseScoreArgs, affinity_weight \in AffinityArgs,
          alpha \in AlphaArgs :
         Start(p, [fn |-> "adaptive", base_scores |-> base_scores,
                   affinity_weight |-> affinity_weight, alpha |-> alpha,
                   out |-> ApplyAdaptiveScores(base_scores, affinity_weight,
                                               alpha)])
    /\ pc' = [pc EXCEPT ![p] = "run"]
    /\ UNCHANGED <<storeVars, tableVars, classifierVars, call, result,
                   ghostVars>>

\* The caller has the map.
AdaptiveOver(p) ==
    /\ pc[p] = "run"
    /\ frame[p].fn = "adaptive"
    /\ pc' = [pc EXCEPT ![p] = "idle"]
    /\ frame' = [frame EXCEPT ![p] = NoFrame]
    /\ UNCHANGED <<storeVars, tableVars, classifierVars, call, result,
                   ghostVars>>

NextAdaptive == ApplyAdaptive(EventLoop) \/ AdaptiveOver(EventLoop)

\* Adaptive rescalings, one after the other.
SpecAdaptive == Init /\ [][NextAdaptive]_vars

\* ----------------------------------------- top_k_items, confidence_margin
\* A score map is the sequence of its values in the order of its keys, label
\* i being its i-th key; an item is the pair <<label, score>>.
ItemsOf(score_map) == [i \in DOMAIN score_map |-> <<i, score_map[i]>>]

\* max(1, int(k or 1))
SafeK(k) == IF k > 1 THEN k ELSE 1

\* Mutant of TopKItems: the items are not sorted.
TopKItemsUnsorted(score_map, k) == Prefix(ItemsOf(score_map), SafeK(k))

\* adaptive_scoring.top_k_items: the items by descending score, those of
\* equal score in the order of the map, cut to safe_k.
TopKItems(score_map, k) ==
    LET keyed == [i \in DOMAIN score_map |->
                     [key |-> score_map[i], item |-> <<i, score_map[i]>>]]
        sorted == SortDescending(keyed)
    IN  Prefix([i \in DOMAIN sorted |-> sorted[i].item], SafeK(k))

\* adaptive_scoring.confidence_margin
ConfidenceMargin(items) ==
    IF Len(items) < 2
    THEN IF items # <<>> THEN items[1][2] ELSE 0
    ELSE FloatAdd(items[1][2], -items[2][2])

\* The scores classify_pil ranks are those of a softmax or of
\* apply_adaptive_scores: none is negative.
RankedScoreArgs == {x \in ScoreArgs : x >= 0}
ScoreMapArgs == UNION {[1..n -> RankedScoreArgs] : n \in 0..MaxScores}
TopKArgs == {-1, 0, 1, 2, ClipTopK}
ItemArgs == {ItemsOf(m) : m \in BaseScoreArgs}

\* classify_pil, lines 440-445: the margin of the top items of a score map.
TopItemsMargin(p) ==
    /\ p = EventLoop
    /\ pc[p] = "idle"
    /\ \E score_map \in ScoreMapArgs, k \in TopKArgs :
         LET top_items == TopKItems(score_map, k)
         IN  Start(p, [fn |-> "top_margin", score_map |-> score_map,
                       k |-> k, items |-> top_items,
                       out |-> ConfidenceMargin(top_items)])
    /\ pc' = [pc EXCEPT ![p] = "run"]
    /\ UNCHANGED <<storeVars, tableVars, classifierVars, call, result,
                   ghostVars>>

\* confidence_margin, called on any list of items.
MarginOf(p) ==
    /\ p = EventLoop
    /\ pc[p] = "idle"
    /\ \E items \in ItemArgs :
         Start(p, [fn |-> "margin", items |-> items,
                   out |-> ConfidenceMargin(items)])
    /\ pc' = [pc EXCEPT ![p] = "run"]
    /\ UNCHANGED <<storeVars, tableVars, classifierVars, call, result,
                   ghostVars>>

\* The caller has the margin.
MarginOver(p) ==
    /\ pc[p] = "run"
    /\ frame[p].fn \in {"top_margin", "margin"}
    /\ pc' = [pc EXCEPT ![p] = "idle"]
    /\ frame' = [frame EXCEPT ![p] = NoFrame]
    /\ UNCHANGED <<storeVars, tableVars, classifierVars, call, result,
                   ghostVars>>

NextMargin ==
    \/ TopItemsMargin(EventLoop)
    \/ MarginOf(EventLoop)
    \/ MarginOver(EventLoop)

\* Confidence margins, one after the other.
SpecMargin == Init /\ [][NextMargin]_vars

\* ------------------------------------------------------------ the claims
FeedbackKeys == Hashes \X StoredThemes

\* No record_feedback call is under way.
FeedbackQuiescent ==
    \A p \in Threads : call[p].op = "record_feedback" => pc[p] = "return"

\* C1: concurrent record_feedback calls on one (image_hash, theme) key lose
\* no update.  With no prior record and the store available, once the calls
\* are over total_assignments is the number of calls and acceptance_count the
\* number of accepted calls; when all were accepted get_affinity_weight
\* computes exactly 1.0, and no read made meanwhile sees another non-zero
\* weight.
C1_NoLostFeedback ==
    /\ (enabled /\ FeedbackQuiescent) =>
          \A k \in FeedbackKeys :
             /\ feedback[k].total_assignments = issued[k].total
             /\ feedback[k].acceptance_count = issued[k].accepted
             /\ (issued[k].total > 0 /\ issued[k].accepted = issued[k].total)
                   => IsOne(SelectAffinityWeight(feedback, k[1], k[2]))
    /\ \A p \in Threads :
          (/\ pc[p] = "return"
           /\ call[p].op = "get_affinity_weight"
           /\ <<call[p].image_hash, call[p].theme>> \in FeedbackKeys
           /\ LET k == <<call[p].image_hash, call[p].theme>>
              IN  issued[k].accepted = issued[k].total)
          => (result[p].value = ZeroWeight \/ IsOne(result[p].value))

\* C1 witness: every thread has registered an accepted feedback for the same
\* key, all calls are over, and the record counts them all.
C1_Witness ==
    /\ enabled
    /\ \A p \in StoreCallers : pc[p] = "done"
    /\ \E k \in FeedbackKeys :
          /\ issued[k].accepted = NumStoreCalls
          /\ feedback[k].total_assignments = NumStoreCalls
          /\ feedback[k].acceptance_count = NumStoreCalls

\* C2: the disabled state is terminal.  Every connect, DDL or statement error
\* disables the store; once disabled it is never enabled again; and an
\* operation called while it is disabled returns its miss value at once,
\* having sent no statement.
C2_DisabledIsTerminal ==
    /\ [](backend_failed => ~enabled)
    /\ [][~enabled => ~enabled']_vars
    /\ [](\A p \in Threads :
             started_disabled[p] =>
                /\ ~sent_statement[p]
                /\ pc[p] \in {"return", "run"}
                /\ result[p] = MissValue(call[p].op))

\* C2 witness: a statement error has disabled the store during a
\* classification, and the listing of the image embeddings, called
\* afterwards, has returned its miss value without a statement.
C2_Witness ==
    /\ backend_failed
    /\ schema_ready
    /\ frame[EventLoop].fn = "classify"
    /\ ~frame[EventLoop].store_down
    /\ started_disabled[EventLoop]
    /\ pc[EventLoop] = "return"
    /\ call[EventLoop].op = "list_image_embeddings"
    /\ result[EventLoop] = Returned(<<>>)
    /\ ~sent_statement[EventLoop]

\* The category of image h under the labels when nothing comes from a
\* cache: both encoders run.
\* The request of thread p has an empty payload or no label left after
\* normalization.
Rejected(p) == frame[p].image_bytes = "" \/ frame[p].labels = <<>>

CategoryWithoutCaches(h, labels) ==
    OrderedLabels(labels, ComputeImageEmbedding(h),
                  ComputeLabelEmbeddings(labels))[1]

Executes(p, op) ==
    /\ pc[p] = "exec"
    /\ pc'[p] = "return"
    /\ call[p].op = op
    /\ enabled'

\* C4: image embeddings are stored per (image_hash, model_name): a
\* save_image_embedding under one model leaves what get_image_embedding
\* returns for the same hash under every other model unchanged.
C4_SaveLeavesOtherModels ==
    [][\A p \in Threads :
          Executes(p, "save_image_embedding") =>
             \A m \in Models \ {call[p].model_name} :
                SelectImageEmbedding(image_cache', call[p].image_hash, m)
                   = SelectImageEmbedding(image_cache, call[p].image_hash, m)
      ]_vars

\* What get_image_embedding(h, m) is to return after the saves so far: the
\* latest vector saved under (h, m), in float32, or None.
LatestSaved(h, m) ==
    IF last_saved[<<h, m>>].saved
    THEN Returned(Float32Vector(last_saved[<<h, m>>].embedding))
    ELSE PyNone

\* C5: with the store available, get_image_embedding(h, m) returns the
\* vector of the most recent save_image_embedding(h, m, ...), and None when
\* nothing was saved under (h, m).
C5_GetReturnsLatestSave ==
    [][\A p \in Threads :
          Executes(p, "get_image_embedding") =>
             result'[p] = LatestSaved(call[p].image_hash, call[p].model_name)
      ]_vars

\* The enrichment call of thread p found nothing under its cache key.
ExpandMissed(p) ==
    \/ frame[p].at \in {"remote", "save", "raised"}
    \/ frame[p].at = "returned" /\ call[p].op = "save_llm_expansion"

InExpand(p) == frame[p].fn = "expand"

\* C6: on an enrichment cache miss the remote collaborator is invoked exactly
\* once and the normalized result is persisted under the cache key, whatever
\* the remote call's outcome; so, with the store available, a call whose
\* cache key had an entry when it was made makes no remote call.
C6_MissCallsOnceAndPersists ==
    \A p \in Threads :
        InExpand(p) =>
           /\ (frame[p].at \in {"returned", "raised"} /\ ExpandMissed(p)) =>
                 /\ frame[p].invoked = 1
                 /\ enabled =>
                       /\ llm_cache[FrameKey(frame[p])].present
                       /\ NormalizePayload(Returned(
                              llm_cache[FrameKey(frame[p])].expansion))
                            = llm_cache[FrameKey(frame[p])].expansion
           /\ (frame[p].entry_at_call /\ enabled) => frame[p].invoked = 0

C8_NothingToExpand ==
    \A p \in Threads :
        (InExpand(p) /\ (~frame[p].enabled \/ frame[p].clean_labels = <<>>))
        => /\ frame[p].at = "returned"
           /\ frame[p].value = EmptyExpansion
           /\ frame[p].value =
                 [subtags |-> JsonList(<<>>), style_traits |-> JsonList(<<>>),
                  emotions |-> JsonList(<<>>),
                  pack_suggestions |-> JsonList(<<>>)]
           /\ call[p] = NoCall
           /\ ~sent_statement[p]
           /\ frame[p].invoked = 0

\* C8 witness: with the store available, one call with enrichment disabled,
\* labels given and an API key set, and one with enrichment enabled and only
\* blank labels, have both returned.
C8_Witness ==
    /\ enabled
    /\ \E p, q \in Threads :
          /\ InExpand(p) /\ InExpand(q)
          /\ ~frame[p].enabled /\ frame[p].clean_labels # <<>>
          /\ frame[p].api_key
          /\ frame[q].enabled /\ frame[q].clean_labels = <<>>
          /\ frame[p].at = "returned" /\ frame[q].at = "returned"

\* What C9 promises of a call of thread p.
HitServedFromCache(p) ==
    /\ call[p].op = "get_llm_expansion"
    /\ call[p].cache_key = FrameKey(frame[p])
    /\ frame[p].at \in {"lookup", "returned"}
    /\ frame[p].invoked = 0
    /\ frame[p].at = "returned" =>
          /\ sent_statement[p]
          /\ IsCacheHit(result[p])
          /\ frame[p].value = NormalizePayload(result[p])

\* C9 as stated: enrichment enabled, a non-empty label given and an entry
\* persisted under the cache key: the call looks the key up, returns the
\* normalized cached payload and makes no remote call.
C9_HitReturnsCached ==
    \A p \in Threads :
        (/\ InExpand(p)
         /\ frame[p].enabled
         /\ frame[p].clean_labels # <<>>
         /\ frame[p].entry_at_call)
        => HitServedFromCache(p)

\* C9 amended: the same, when moreover an API key is configured and the
\* store is available.
C9_HitReturnsCachedWithKeyAndStore ==
    \A p \in Threads :
        (/\ InExpand(p)
         /\ frame[p].enabled
         /\ frame[p].clean_labels # <<>>
         /\ frame[p].entry_at_call
         /\ frame[p].api_key
         /\ enabled)
        => HitServedFromCache(p)

\* C9 witness: a call made when a non-empty payload was persisted under its
\* key has returned that payload.
C9_Witness ==
    \E p \in Threads :
        /\ InExpand(p)
        /\ frame[p].entry_at_call
        /\ frame[p].at = "returned"
        /\ frame[p].value # EmptyExpansion
        /\ frame[p].value = llm_cache[FrameKey(frame[p])].expansion
        /\ remote_calls[FrameKey(frame[p])] = 1
        /\ enabled

\* C10: expand_labels_with_llm never raises to its caller.
C10_ExpandNeverRaises ==
    \A p \in Threads : InExpand(p) => frame[p].at # "raised"

\* C11: once a request to the remote collaborator has raised (failure or
\* timeout), the enrichment is disabled for the rest of the process: a call
\* that begins after a call has come back from a failed request, for the
\* same labels or for others, sends no request to the remote collaborator.
C11_DisabledAfterRemoteFailure ==
    \A q \in Threads :
        (frame[q].fn = "expand" /\ frame[q].after_failure) =>
            frame[q].invoked = 0

\* C12: the memo check, the computation and the memo update of one call of
\* get_label_embeddings do not interleave with those of another call, so the
\* text encoder computes the embedding of a label at most once per process.
C12_LabelEncodedOnce ==
    /\ \A l \in LabelTexts : encoded[l] <= 1
    /\ \A p, q \in Threads :
          (/\ p # q
           /\ frame[p].fn = "labels" /\ frame[q].fn = "labels"
           /\ frame[p].at \in {"label_lookup", "label_save"}
           /\ frame[q].at \in {"label_lookup", "label_save"}) =>
              Elements(frame[p].missing) \cap Elements(frame[q].missing) = {}

\* C13: when several callers make first use of the store at the same time,
\* the DDL batch is run by one of them and at most once per process; the
\* others wait for the lock, so a caller sends a data statement only when
\* the provisioning is complete, never while it is in progress or undone.
C13_ProvisionedOnce ==
    /\ ddl_runs <= 1
    /\ schema_ready => ddl_runs = 1
    /\ \A p \in Threads :
          /\ pc[p] = "schema" => lock = p
          /\ pc[p] = "exec" => schema_ready /\ lock # p

\* One caller has just run the DDL batch, a second one stands at the lock
\* and a third one is about to send its statement.
C13_Witness ==
    /\ ddl_runs = 1
    /\ schema_ready
    /\ \E p, q, r \in StoreCallers :
          /\ pc[p] = "connect" /\ sent_statement[p]
          /\ pc[q] = "schema"
          /\ pc[r] = "exec"

\* C14: the counters of a feedback record never decrease and are never
\* reset.  A step changes the feedback table only when the database executes
\* the statement of a record_feedback, which adds 1 to total_assignments and
\* 1 to acceptance_count iff accepted under its own key (creating the record
\* with those values when it is absent) and leaves every other record alone;
\* every executed record_feedback does so, and no other step changes a record.
C14_FeedbackOnlyIncrements ==
    [][/\ \A k \in FeedbackKeys :
             /\ feedback[k].present => feedback'[k].present
             /\ feedback'[k].acceptance_count >= feedback[k].acceptance_count
             /\ feedback'[k].total_assignments >= feedback[k].total_assignments
       /\ \A p \in Threads :
             Executes(p, "record_feedback") =>
                LET k == <<call[p].image_hash, call[p].theme>>
                    inc == IF call[p].accepted THEN 1 ELSE 0
                IN  /\ feedback'[k].present
                    /\ feedback'[k].total_assignments =
                          feedback[k].total_assignments + 1
                    /\ feedback'[k].acceptance_count =
                          feedback[k].acceptance_count + inc
                    /\ \A j \in FeedbackKeys \ {k} :
                          feedback'[j] = feedback[j]
       /\ feedback' # feedback =>
             \E p \in Threads :
                /\ pc[p] = "exec" /\ pc'[p] = "return"
                /\ call[p].op = "record_feedback"
                /\ feedback' = FeedbackAfter(call[p])
      ]_vars

\* A record that took a refused and an accepted feedback.
C14_Witness ==
    \E k \in FeedbackKeys :
        /\ feedback[k].present
        /\ feedback[k].total_assignments = 2
        /\ feedback[k].acceptance_count = 1
        /\ issued[k] = [total |-> 2, accepted |-> 1]

\* The weight w is a fraction between 0 and 1.
InUnitInterval(w) == w.den > 0 /\ 0 <= w.num /\ w.num <= w.den

\* C15: get_affinity_weight returns acceptance_count / total_assignments when
\* the record exists with total_assignments > 0 and 0 otherwise (no record,
\* zero total, empty hash or theme, store disabled or failing); in every
\* reachable state acceptance_count <= total_assignments, so the weight
\* returned is always in [0,1].
C15_AffinityWeight ==
    /\ [](\A k \in FeedbackKeys :
             /\ 0 <= feedback[k].acceptance_count
             /\ feedback[k].acceptance_count <= feedback[k].total_assignments)
    /\ [](\A p \in Threads :
             (pc[p] = "return" /\ call[p].op = "get_affinity_weight") =>
                /\ result[p].kind = "value"
                /\ InUnitInterval(result[p].value)
                /\ (\/ started_disabled[p]
                    \/ call[p].image_hash = ""
                    \/ call[p].theme = <<>>
                    \/ ~sent_statement[p]) => result[p].value = ZeroWeight)
    /\ [][\A p \in Threads :
            (/\ pc[p] = "exec" /\ pc'[p] = "return"
             /\ call[p].op = "get_affinity_weight") =>
               LET k == <<call[p].image_hash, call[p].theme>>
                   exists == /\ k \in FeedbackKeys
                             /\ feedback[k].present
                             /\ feedback[k].total_assignments > 0
               IN  \/ result'[p].value = ZeroWeight
                      /\ (~exists \/ backend_failed'
                          \/ feedback[k].acceptance_count = 0)
                   \/ /\ exists
                      /\ result'[p].value.num = feedback[k].acceptance_count
                      /\ result'[p].value.den = feedback[k].total_assignments
          ]_vars
    /\ [][\A p \in Threads :
            (Executes(p, "get_affinity_weight")
             /\ <<call[p].image_hash, call[p].theme>> \in FeedbackKeys) =>
               LET row == feedback[<<call[p].image_hash, call[p].theme>>]
               IN  result'[p].value =
                      IF row.present /\ row.total_assignments > 0
                      THEN Weight(row.acceptance_count, row.total_assignments)
                      ELSE ZeroWeight
          ]_vars

\* A weight of 1/2 was read from a record with one acceptance in two
\* assignments.
C15_Witness ==
    \E p \in Threads :
        /\ pc[p] = "return"
        /\ call[p].op = "get_affinity_weight"
        /\ result[p] = Returned(Weight(1, 2))
        /\ feedback[<<call[p].image_hash, call[p].theme>>].total_assignments
              = 2

\* C16: no classification changes a feedback record.  The classification
\* path never calls record_feedback, no step of it changes the feedback
\* table, and the table changes only in the step in which the database
\* executes the record_feedback of an explicit feedback registration.
C16_ClassifyLeavesFeedback ==
    /\ [](\A p \in Threads :
             frame[p].fn = "classify" => call[p].op # "record_feedback")
    /\ [][feedback' # feedback =>
            \E p \in Threads :
               /\ frame[p].fn = "store"
               /\ call[p].op = "record_feedback"
               /\ pc[p] = "exec" /\ pc'[p] = "return"
               /\ \A q \in Threads \ {p} :
                     /\ pc'[q] = pc[q]
                     /\ frame'[q] = frame[q]
                     /\ result'[q] = result[q]
          ]_vars

\* A classification has read the weight 1 of a record and returned, and the
\* record is as the feedback registration left it.
C16_Witness ==
    /\ frame[EventLoop].fn = "classify"
    /\ frame[EventLoop].at = "returned"
    /\ IsOne(frame[EventLoop].response.affinity_weight)
    /\ \E k \in FeedbackKeys :
          /\ feedback[k].present
          /\ feedback[k].total_assignments = 1
          /\ feedback[k].acceptance_count = 1

\* The calls of find_similar_images that have returned a list.
SimilarReturned ==
    {p \in Threads : frame[p].fn = "find_similar"
                       /\ frame[p].out.kind = "value"}

\* C17: find_similar_images never returns the query's own hash: when
\* source_image_hash is given, no returned entry has that image_hash, even
\* when the scanned set holds that hash with similarity 1.0 to the query.
C17_NeverReturnsOwnHash ==
    \A p \in SimilarReturned :
        frame[p].source_image_hash # "" =>
           \A i \in 1..Len(frame[p].out.value) :
              frame[p].out.value[i].image_hash # frame[p].source_image_hash

\* The scanned set holds the query's own hash with the query's vector, the
\* threshold admits it, and the search returned other images.
C17_Witness ==
    \E p \in SimilarReturned :
        /\ frame[p].source_image_hash # ""
        /\ \E i \in 1..Len(frame[p].rows) :
              /\ frame[p].rows[i].image_hash = frame[p].source_image_hash
              /\ frame[p].rows[i].embedding = frame[p].image_embedding
              /\ CosineSimilarity(frame[p].image_embedding,
                                  frame[p].rows[i].embedding) = ScoreUnit
        /\ frame[p].threshold <= ScoreUnit
        /\ frame[p].out.value # <<>>

\* The rows of a call that are compared with the query, and the one of a
\* returned entry.
CandidateRows(p) ==
    {r \in Elements(frame[p].rows) :
        /\ r.embedding # <<>>
        /\ ~(frame[p].source_image_hash # ""
             /\ r.image_hash = frame[p].source_image_hash)}

ScoreOf(p, r) == CosineSimilarity(frame[p].image_embedding, r.embedding)

ReturnedHashes(p) ==
    {frame[p].out.value[i].image_hash : i \in 1..Len(frame[p].out.value)}

\* What the claim and its amendment share: the entries are candidates, in
\* non-increasing order of reported similarity, no candidate left out has a
\* higher reported similarity than one returned, and the list is empty when
\* there is no candidate or none passes the threshold.
SortedBestHits(p) ==
    LET out == frame[p].out.value
    IN  /\ \A i \in 1..Len(out) :
              \E r \in CandidateRows(p) :
                 /\ r.image_hash = out[i].image_hash
                 /\ out[i].key = Round6(ScoreOf(p, r))
                 /\ ScoreOf(p, r) >= frame[p].threshold
        /\ \A i, j \in 1..Len(out) : i < j => out[i].key >= out[j].key
        /\ \A r \in CandidateRows(p) :
              r.image_hash \notin ReturnedHashes(p) =>
                 \A i \in 1..Len(out) : Round6(ScoreOf(p, r)) <= out[i].key
        /\ (\A r \in CandidateRows(p) : ScoreOf(p, r) < frame[p].threshold)
              => out = <<>>

\* C18: for every scanned set, threshold and limit, find_similar_images
\* returns at most limit entries, each with a reported similarity >= the
\* threshold, in non-increasing order of similarity, no candidate left out
\* having a higher similarity than one returned; the list is empty when
\* there is no candidate or none passes the threshold.
C18_AtMostLimitAboveThreshold ==
    \A p \in SimilarReturned :
        /\ Len(frame[p].out.value) <= frame[p].limit
        /\ \A i \in 1..Len(frame[p].out.value) :
              frame[p].out.value[i].key * (ScoreUnit \div SimilarityUnit)
                 >= frame[p].threshold
        /\ SortedBestHits(p)

\* C18 amended: whenever find_similar_images returns and the limit is not 0
\* (C28 is about that one), it returns at most the limit clamped to [1,100]
\* entries, and as many as pass when those are fewer; the similarity of
\* every entry is >= the threshold before it is rounded to six decimals, so
\* the reported one is >= threshold - 0.0000005; order, choice of the best
\* and the empty list are as the claim says.
C18_AtMostClampedLimit ==
    \A p \in {q \in SimilarReturned : frame[q].limit # 0} :
        LET out == frame[p].out.value
            clamped == IF frame[p].limit < 1 THEN 1
                       ELSE IF frame[p].limit > 100 THEN 100
                       ELSE frame[p].limit
            passing == {r \in CandidateRows(p) :
                           ScoreOf(p, r) >= frame[p].threshold}
        IN  /\ Len(out) <= clamped
            /\ Len(out) = IF Cardinality(passing) < clamped
                          THEN Cardinality(passing) ELSE clamped
            /\ \A i \in 1..Len(out) :
                  2 * out[i].key * (ScoreUnit \div SimilarityUnit)
                     + (ScoreUnit \div SimilarityUnit)
                        >= 2 * frame[p].threshold
            /\ SortedBestHits(p)

\* With limit -1 the search returned one entry out of the two that passed;
\* with limit 25 it returned three, one of them reported below the threshold
\* it passed.
C18_Witness ==
    /\ \E p \in SimilarReturned :
          /\ frame[p].limit \in {-1, 25}
          /\ Len(frame[p].out.value) = IF frame[p].limit = -1 THEN 1 ELSE 3
          /\ Cardinality({r \in CandidateRows(p) :
                             ScoreOf(p, r) >= frame[p].threshold}) >= 2
          /\ frame[p].limit = 25 =>
                \E i \in 1..3 :
                   frame[p].out.value[i].key * (ScoreUnit \div SimilarityUnit)
                      < frame[p].threshold

\* C19: a cached embedding whose length differs from the query's is
\* discarded by find_similar_images: the search does not raise and returns
\* the hits among the remaining candidates.
C19_MismatchDiscarded ==
    \A p \in Threads :
        frame[p].fn = "find_similar" =>
           /\ frame[p].out.kind = "value"
           /\ \A i \in 1..Len(frame[p].out.value) :
                 \E r \in CandidateRows(p) :
                    /\ r.image_hash = frame[p].out.value[i].image_hash
                    /\ Len(r.embedding) = Len(frame[p].image_embedding)

\* The exact sum of a sequence of numbers.
RECURSIVE ExactSum(_)
ExactSum(values) ==
    IF values = <<>> THEN 0 ELSE Head(values) + ExactSum(Tail(values))

\* The calls of apply_adaptive_scores on a non-empty map of non-negative
\* base scores with alpha >= 0.
AdaptiveCalls ==
    {p \in Threads :
        /\ frame[p].fn = "adaptive"
        /\ frame[p].base_scores # <<>>
        /\ \A i \in 1..Len(frame[p].base_scores) : frame[p].base_scores[i] >= 0
        /\ frame[p].alpha >= 0}

\* The rounded sum of the clamped adjusted scores of a call.
ClampedTotal(p) ==
    FloatSumClamped(Boosted(frame[p].base_scores, frame[p].affinity_weight,
                            frame[p].alpha))

\* C20: for every non-empty map of non-negative base scores, every affinity
\* in [0,1] and every alpha >= 0, the values returned by
\* apply_adaptive_scores are each in [0,1] and sum to 1 when the sum of the
\* clamped adjusted scores exceeds 1e-12, and sum to 0 otherwise.
C20_SumsToOne ==
    \A p \in AdaptiveCalls :
        /\ Len(frame[p].out) = Len(frame[p].base_scores)
        /\ \A i \in 1..Len(frame[p].out) :
              0 <= frame[p].out[i] /\ frame[p].out[i] <= FloatOne
        /\ ExactSum(frame[p].out) =
              IF ClampedTotal(p) > TotalEpsilon THEN FloatOne ELSE 0

\* C20 amended: the values returned are each in [0,1]; when the sum of the
\* clamped adjusted scores exceeds 1e-12 they sum to 1 up to the rounding of
\* the additions and divisions, at most n units in the last place of 1.0
\* for n labels, and otherwise they are all 0.
C20_SumsToOneWithinRounding ==
    \A p \in AdaptiveCalls :
        LET out == frame[p].out
            sum == ExactSum(out)
            off == IF sum > FloatOne THEN sum - FloatOne ELSE FloatOne - sum
        IN  /\ Len(out) = Len(frame[p].base_scores)
            /\ \A i \in 1..Len(out) : 0 <= out[i] /\ out[i] <= FloatOne
            /\ IF ClampedTotal(p) > TotalEpsilon
               THEN off * Pow2(FloatPrecision - 1) <= Len(out) * FloatOne
               ELSE \A i \in 1..Len(out) : out[i] = 0

\* Three labels boosted by a positive affinity, whose returned values do not
\* add up to 1 exactly.
C20_Witness ==
    \E p \in AdaptiveCalls :
        /\ Len(frame[p].out) = 3
        /\ frame[p].affinity_weight > 0
        /\ frame[p].alpha > 0
        /\ ExactSum(frame[p].out) # FloatOne
        /\ ExactSum(frame[p].out) > 0

\* The calls of AdaptiveCalls whose base scores have a positive sum.
BoostCalls == {p \in AdaptiveCalls : ExactSum(frame[p].base_scores) > 0}

\* The order of the labels by score is the same in the two maps.
SameOrder(before, after) ==
    \A i, j \in 1..Len(before) :
        (before[i] < before[j]) <=> (after[i] < after[j])

\* The order of the labels by score is nowhere reversed, and labels of equal
\* score stay equal.
OrderKept(before, after) ==
    \A i, j \in 1..Len(before) :
        (before[i] <= before[j]) => (after[i] <= after[j])

\* C21: the uniform boost changes neither the ranking nor the final
\* normalized scores: for non-negative base scores of positive sum, w in
\* [0,1] and alpha >= 0, apply_adaptive_scores returns each base score
\* divided by the base sum, which is what it returns without boost, and the
\* order of the labels by score is the same before and after.
C21_BoostChangesNothing ==
    \A p \in BoostCalls :
        /\ frame[p].out = ApplyAdaptiveScores(frame[p].base_scores, 0, 0)
        /\ SameOrder(frame[p].base_scores, frame[p].out)

\* C21 amended: each value returned is the base score divided by the base sum
\* up to the rounding of the multiplication, the additions and the division,
\* a relative error of at most (n + 2) * 2^-FloatPrecision for n labels; the
\* order of the labels by score is never reversed, and equal base scores give
\* equal values.
C21_BoostWithinRounding ==
    \A p \in BoostCalls :
        LET base == frame[p].base_scores
            out == frame[p].out
            sum == ExactSum(base)
        IN  /\ Len(out) = Len(base)
            /\ OrderKept(base, out)
            /\ \A i \in 1..Len(base) :
                  LET exact == base[i] * FloatOne
                      got == out[i] * sum
                      off == IF got > exact THEN got - exact ELSE exact - got
                  IN  off <= ((Len(base) + 2) * exact) \div
                                 Pow2(FloatPrecision)

\* A boost of 1 + 1/2 * 1/4 on two labels of different scores, whose values
\* differ from the ones returned without boost.
C21_Witness ==
    \E p \in BoostCalls :
        /\ frame[p].affinity_weight > 0
        /\ frame[p].alpha > 0
        /\ Len(frame[p].base_scores) >= 2
        /\ frame[p].base_scores[1] > frame[p].base_scores[2]
        /\ frame[p].out[1] > frame[p].out[2]
        /\ frame[p].out # ApplyAdaptiveScores(frame[p].base_scores, 0, 0)

\* Every call of apply_adaptive_scores, whatever its arguments.
AllAdaptiveCalls == {p \in Threads : frame[p].fn = "adaptive"}

\* C22: apply_adaptive_scores returns a map over exactly the labels of its
\* input: the empty map for an empty input, and all zeros when the sum of the
\* adjusted scores clamped at 0 is <= 1e-12; it divides only by a total above
\* 1e-12 and returns no negative score.
C22_DegenerateTotals ==
    \A p \in AllAdaptiveCalls :
        LET base == frame[p].base_scores
            out == frame[p].out
        IN  /\ DOMAIN out = DOMAIN base
            /\ (base = <<>>) => (out = <<>>)
            /\ \A i \in DOMAIN out : out[i] >= 0
            /\ IF ClampedTotal(p) <= TotalEpsilon
               THEN \A i \in DOMAIN out : out[i] = 0
               ELSE \A i \in DOMAIN out :
                       out[i] = FloatDiv(Max0(Boosted(base,
                                    frame[p].affinity_weight,
                                    frame[p].alpha)[i]), ClampedTotal(p))

\* Positive base scores with 1 + 1 * (-2) < 0: the adjusted scores are all
\* negative, their clamped total is 0, and the map returned is all zeros.
C22_Witness ==
    \E p \in AllAdaptiveCalls :
        /\ Len(frame[p].base_scores) >= 2
        /\ \A i \in DOMAIN frame[p].base_scores : frame[p].base_scores[i] > 0
        /\ FloatAdd(FloatOne,
                    FloatMul(frame[p].affinity_weight, frame[p].alpha)) < 0
        /\ ClampedTotal(p) = 0
        /\ \A i \in DOMAIN frame[p].out : frame[p].out[i] = 0

\* The calls of confidence_margin, on the top items of a map or on any list.
MarginCalls == {p \in Threads : frame[p].fn \in {"top_margin", "margin"}}

\* C23: confidence_margin returns 0 for an empty list, the score of the item
\* for a list of one, and the first score minus the second for a longer
\* list; for the list top_k_items makes of the scores of a classification,
\* which is in descending order, the margin is never negative.
C23_ConfidenceMargin ==
    \A p \in MarginCalls :
        LET items == frame[p].items
        IN  /\ (Len(items) = 0) => (frame[p].out = 0)
            /\ (Len(items) = 1) => (frame[p].out = items[1][2])
            /\ (Len(items) >= 2) =>
                  (frame[p].out = FloatAdd(items[1][2], -items[2][2]))
            /\ (frame[p].fn = "top_margin") =>
                  /\ frame[p].out >= 0
                  /\ \A i, j \in DOMAIN items :
                        i < j => items[i][2] >= items[j][2]

\* The top two of three scores, the largest of which is not the first of the
\* map: the margin is their positive difference.
C23_Witness ==
    \E p \in MarginCalls :
        /\ frame[p].fn = "top_margin"
        /\ Len(frame[p].score_map) = 3
        /\ Len(frame[p].items) = 2
        /\ frame[p].items[1][1] # 1
        /\ frame[p].out > 0
        /\ frame[p].out < frame[p].items[1][2]

\* C24: a classification request with an empty image payload, or with a
\* label set that is empty after normalization, fails with a validation error
\* raised to the caller, before any embedding is computed and before any store
\* row is read or written: the step that takes the request raises at once,
\* calls no store operation and leaves the store, the tables, the memo and
\* the encoders' counts as they were, and so does the step that hands the
\* error over.
C24_InvalidRequestRaisesFirst ==
    [][\A p \in Threads :
          (/\ frame'[p].fn = "classify"
           /\ Rejected(p)'
           /\ frame[p].fn = "none") =>
              /\ frame'[p].at = "raised"
              /\ pc'[p] = "run"
              /\ call'[p] = NoCall
              /\ frame'[p].image_embedding = <<>>
              /\ frame'[p].out = NoEmbeddings
              /\ UNCHANGED <<storeVars, tableVars, classifierVars, runCounts,
                             sent_statement, backend_failed, last_saved>>
      ]_vars

\* A request with image bytes and only blank labels has been refused while
\* the store is available.
C24_Witness ==
    /\ frame[EventLoop].fn = "classify"
    /\ frame[EventLoop].image_bytes # ""
    /\ frame[EventLoop].labels = <<>>
    /\ frame[EventLoop].at = "raised"
    /\ enabled
    /\ requests = 1

\* Thread p is in get_label_embeddings, called directly.
InLabels(p) == frame[p].fn = "labels"

\* C25: get_label_embeddings reads the memo, then the persistent store, then
\* the model.  The call that begins asks the store for exactly the requested
\* labels that the memo lacks, and for nothing when the memo has them all (a
\* repeat call); when the store has answered, the text encoder computes
\* exactly the labels that neither the memo nor the store gave, and those are
\* handed to save_label_embeddings; when the call has returned, every
\* requested label is in the memo and, the store being enabled, every label
\* the call computed is in the persistent table.
C25_MemoThenStoreThenModel ==
    /\ [][\A p \in Threads :
            (frame[p].fn = "none" /\ InLabels(p)') =>
               LET absent == Elements(frame'[p].labels) \ Keys(label_memo)
               IN  IF absent = {}
                   THEN /\ call'[p] = NoCall
                        /\ pc'[p] = "return"
                        /\ frame'[p].missing = <<>>
                   ELSE /\ call'[p].op = "get_label_embeddings"
                        /\ Elements(call'[p].labels) = absent
         ]_vars
    /\ [][\A p \in Threads :
            (/\ InLabels(p)
             /\ frame[p].at = "label_lookup"
             /\ frame'[p].at = "label_save") =>
               LET left == Elements(frame[p].missing) \
                               Keys(result[p].value)
               IN  /\ \A l \in LabelTexts :
                         encoded'[l] =
                             encoded[l] + IF l \in left THEN 1 ELSE 0
                   /\ Elements(frame'[p].missing) = left
                   /\ IF left = {}
                      THEN call'[p] = NoCall
                      ELSE /\ call'[p].op = "save_label_embeddings"
                           /\ Keys(call'[p].embeddings) = left
         ]_vars
    /\ [][encoded' # encoded =>
            \E p \in Threads : /\ InLabels(p)
                               /\ frame[p].at = "label_lookup"
                               /\ frame'[p].at = "label_save"
         ]_vars
    /\ [](\A p \in Threads :
            (InLabels(p) /\ frame[p].at = "returned") =>
               /\ Elements(frame[p].labels) \subseteq Keys(label_memo)
               /\ enabled =>
                     \A l \in Elements(frame[p].missing) :
                        label_cache[<<ClipModelName, l>>].present)

\* A repeat call: every label asked for is in the memo, the table holds what
\* the first call computed, and the call goes on without a store operation.
C25_Witness ==
    \E p \in Threads :
        /\ InLabels(p)
        /\ frame[p].at = "label_lookup"
        /\ Len(frame[p].labels) = 2
        /\ frame[p].missing = <<>>
        /\ call[p] = NoCall
        /\ \A l \in Elements(frame[p].labels) :
              /\ encoded[l] = 1
              /\ label_cache[<<ClipModelName, l>>].present

\* The row of clip_image_embedding_cache that a lookup of (h, model) finds
\* holds a non-empty vector.
ImageCached(h) ==
    /\ image_cache[h].present
    /\ image_cache[h].model_name = ClipModelName
    /\ image_cache[h].embedding # <<>>

\* Thread p's classification has its image embedding and is past the save
\* that get_image_embedding makes of a computed one.
PastImageSave(p) ==
    /\ frame[p].fn = "classify"
    /\ ~Rejected(p)
    /\ frame[p].at \notin {"image_lookup", "image_ready"}

\* C26: get_image_embedding with a non-empty hash runs the image encoder only
\* when the store gave no non-empty vector for (hash, model): a miss, a
\* zero-length vector, a store disabled or failing.  What it computes it hands
\* to save_image_embedding under that key, so once the call is over with the
\* store still enabled the table holds the vector, and a later
\* classification that finds it there, the store still enabled, runs no
\* image encoding.
C26_EncodesOnlyOnMiss ==
    /\ [][\A p \in Threads :
            (/\ frame[p].fn = "classify"
             /\ frame[p].at = "image_lookup"
             /\ frame'[p].at = "image_ready") =>
               /\ frame[p].image_hash # ""
               /\ frame'[p].image_encoded <=>
                     \/ result[p].kind # "value"
                     \/ result[p].value = <<>>
               /\ (ImageCached(frame[p].image_hash) /\ enabled) =>
                     ~frame'[p].image_encoded
               /\ frame'[p].image_encoded =>
                     /\ call'[p].op = "save_image_embedding"
                     /\ call'[p].image_hash = frame[p].image_hash
                     /\ call'[p].model_name = ClipModelName
                     /\ call'[p].embedding = frame'[p].image_embedding
               /\ ~frame'[p].image_encoded => call'[p] = call[p]
         ]_vars
    /\ [](\A p \in Threads :
            (PastImageSave(p) /\ enabled) =>
               ImageCached(frame[p].image_hash))

\* The second classification of a hash has taken the vector the first one
\* saved, without encoding.
C26_Witness ==
    /\ requests = 2
    /\ frame[EventLoop].fn = "classify"
    /\ frame[EventLoop].at = "image_ready"
    /\ ~frame[EventLoop].image_encoded
    /\ frame[EventLoop].image_embedding # <<>>
    /\ enabled
    /\ ImageCached(frame[EventLoop].image_hash)

\* The classification of thread p came with a hash and a theme that is not
\* empty after normalization.
HasHashAndTheme(p) == frame[p].image_hash # "" /\ frame[p].theme # <<>>

\* C27: classify_pil reads the feedback table only when the request has both
\* an image hash and a theme that is not empty after normalization, adaptive
\* scoring being enabled: it calls get_affinity_weight exactly then, with
\* that hash and theme; otherwise it makes no feedback read at any step, the
\* affinity_weight of its result is 0 and the scores it reports are the base
\* softmax scores themselves.
C27_FeedbackReadNeedsHashAndTheme ==
    /\ [][\A p \in Threads :
            (/\ frame[p].fn = "classify"
             /\ frame[p].at = "label_save"
             /\ frame'[p].at = "affinity") =>
               IF EnableAdaptiveScoring /\ HasHashAndTheme(p)
               THEN /\ call'[p].op = "get_affinity_weight"
                    /\ call'[p].image_hash = frame[p].image_hash
                    /\ call'[p].theme = frame[p].theme
               ELSE call'[p] = NoCall
         ]_vars
    /\ [](\A p \in Threads :
            (/\ frame[p].fn = "classify"
             /\ ~(EnableAdaptiveScoring /\ HasHashAndTheme(p))) =>
               /\ call[p].op # "get_affinity_weight"
               /\ frame[p].affinity_weight = ZeroWeight
               /\ frame[p].effective_scores = "base_scores"
               /\ frame[p].at = "returned" =>
                     /\ frame[p].response.affinity_weight = ZeroWeight
                     /\ frame[p].response.all_scores = "base_scores")

\* A classification without theme has returned while the table holds a
\* record of its hash whose weight is 1.
C27_Witness ==
    /\ frame[EventLoop].fn = "classify"
    /\ frame[EventLoop].at = "returned"
    /\ frame[EventLoop].theme = <<>>
    /\ frame[EventLoop].response.affinity_weight = ZeroWeight
    /\ \E k \in FeedbackKeys :
          /\ k[1] = frame[EventLoop].image_hash
          /\ feedback[k].present
          /\ feedback[k].acceptance_count = 1

\* The limit clamped into [1, 100].
ClampedLimit(limit) ==
    IF limit < 1 THEN 1
    ELSE IF limit > SimilarityLimitMax THEN SimilarityLimitMax
    ELSE limit

\* C28: find_similar_images cuts its result to the requested limit clamped
\* into [1,100]: it returns the best entries that pass the threshold, as
\* many as the clamped limit allows, so at most 1 entry for every limit
\* below 1, 0 included.
C28_LimitClamped ==
    \A p \in SimilarReturned :
        LET passing == Cardinality({r \in CandidateRows(p) :
                                       ScoreOf(p, r) >= frame[p].threshold})
            clamped == ClampedLimit(frame[p].limit)
        IN  Len(frame[p].out.value) =
                IF passing < clamped THEN passing ELSE clamped

\* ---------------------------------------------------------------------
\* The scan of the similarity search
\* ---------------------------------------------------------------------

SimilarityScanLimitMin == 100
SimilarityScanLimitMax == 20000

\* "SIMILARITY_SCAN_LIMIT = max(100, min(20000,
\*      int(os.getenv("SIMILARITY_SCAN_LIMIT", "3000") or 3000)))":
\* env is <<>> when the variable is unset or empty, <<n>> when it reads n.
ConfiguredScanLimit(env) ==
    LET asked == IF env = <<>> THEN SimilarityScanLimit ELSE env[1]
        capped == IF asked < SimilarityScanLimitMax THEN asked
                  ELSE SimilarityScanLimitMax
    IN  IF capped > SimilarityScanLimitMin THEN capped
        ELSE SimilarityScanLimitMin

\* How many rows "... ORDER BY updated_at DESC LIMIT safe_limit" gives
\* when the model has cached rows: the latest safe_limit of them.
ScannedRows(cached, limit) ==
    IF cached < SafeLimit(limit) THEN cached ELSE SafeLimit(limit)

ScanLimitArgs == {-1, 0, 10, 49, 50, 60, 99, 100, 3000, 20000, 20001}

ScanEnvArgs == {<<>>} \cup {<<n>> : n \in ScanLimitArgs}

\* How many embeddings of the model the cache holds.
CachedArgs == {0, 49, 50, 51, 60, 100, 101, 3000, 3001, 20000, 20001}

\* find_similar_images called with a scan limit of the caller's choice: it
\* hands scan_limit to list_image_embeddings as it is.
ScanDirect(p) ==
    /\ p = EventLoop
    /\ pc[p] = "idle"
    /\ \E scan_limit \in ScanLimitArgs, cached \in CachedArgs :
         Start(p, [fn |-> "scan", caller |-> "find_similar_images",
                   env |-> <<>>, scan_limit |-> scan_limit,
                   cached |-> cached,
                   scanned |-> ScannedRows(cached, scan_limit)])
    /\ pc' = [pc EXCEPT ![p] = "run"]
    /\ UNCHANGED <<storeVars, tableVars, classifierVars, call, result,
                   ghostVars>>

\* classify_pil calls find_similar_images with
\* scan_limit=SIMILARITY_SCAN_LIMIT, which the module computed from the
\* environment when it was loaded.
ScanConfigured(p) ==
    /\ p = EventLoop
    /\ pc[p] = "idle"
    /\ \E env \in ScanEnvArgs, cached \in CachedArgs :
         Start(p, [fn |-> "scan", caller |-> "classify_pil",
                   env |-> env, scan_limit |-> ConfiguredScanLimit(env),
                   cached |-> cached,
                   scanned |-> ScannedRows(cached,
                                           ConfiguredScanLimit(env))])
    /\ pc' = [pc EXCEPT ![p] = "run"]
    /\ UNCHANGED <<storeVars, tableVars, classifierVars, call, result,
                   ghostVars>>

\* The rows are with the caller.
ScanOver(p) ==
    /\ pc[p] = "run"
    /\ frame[p].fn = "scan"
    /\ pc' = [pc EXCEPT ![p] = "idle"]
    /\ frame' = [frame EXCEPT ![p] = NoFrame]
    /\ UNCHANGED <<storeVars, tableVars, classifierVars, call, result,
                   ghostVars>>

NextScan ==
    \/ ScanDirect(EventLoop)
    \/ ScanConfigured(EventLoop)
    \/ ScanOver(EventLoop)

\* Scans of the image cache, one after the other.
SpecScan == Init /\ [][NextScan]_vars

Scans == {p \in Threads : frame[p].fn = "scan"}

\* The requested scan limit clamped into [100, 20000].
ClampedScanLimit(limit) ==
    IF limit < 100 THEN 100 ELSE IF limit > 20000 THEN 20000 ELSE limit

\* C29: find_similar_images scans the latest scanLimit cached embeddings
\* of the model, scanLimit clamped into [100, 20000]: a scan limit below
\* 100 is raised to 100, one above 20000 is lowered to 20000, and no call
\* scans more than 20000 rows.
C29_ScanClampedTo100 ==
    \A p \in Scans :
        LET clamped == ClampedScanLimit(frame[p].scan_limit)
        IN  frame[p].scanned =
                IF frame[p].cached < clamped THEN frame[p].cached
                ELSE clamped

\* C29 amended: find_similar_images hands its scan limit to
\* list_image_embeddings, which reads 0 as 3000 and clamps into
\* [50, 20000], and scans the latest that many cached embeddings of the
\* model (all of them when they are fewer), so no call scans more than
\* 20000 rows; the scan limit classify_pil passes is the configured one,
\* which is clamped into [100, 20000] when the module is loaded (3000 when
\* unset), and is used as it is.
C29_ScanClampedByStore ==
    \A p \in Scans :
        LET limit == frame[p].scan_limit
            asked == IF limit = 0 THEN 3000 ELSE limit
            safe == IF asked < 50 THEN 50
                    ELSE IF asked > 20000 THEN 20000 ELSE asked
        IN  /\ frame[p].scanned =
                   IF frame[p].cached < safe THEN frame[p].cached ELSE safe
            /\ frame[p].scanned <= 20000
            /\ frame[p].caller = "classify_pil" =>
                  /\ limit = (IF frame[p].env = <<>> THEN 3000
                              ELSE ClampedScanLimit(frame[p].env[1]))
                  /\ safe = limit

\* A direct call with scan limit 60 scanned 60 of the 100 cached rows.
C29_Witness ==
    \E p \in Scans :
        /\ frame[p].caller = "find_similar_images"
        /\ frame[p].scan_limit = 60
        /\ frame[p].cached = 100
        /\ frame[p].scanned = 60

\* The texts of a JSON value that are kept: trimmed, the empty ones and
\* those equal to an earlier one but for the case left out, the first
\* max_items of them in their order; none when the value is no list.
KeptFrom(out, values, max_items) ==
    LET idx == 1..Len(values.items)
        texts == <<>> \o [i \in idx |-> Strip(values.items[i])]
        keys == <<>> \o [i \in idx |-> Lower(texts[i])]
        first == <<>> \o [i \in idx |->
                     /\ texts[i] # <<>>
                     /\ \A j \in 1..(i - 1) : keys[j] # keys[i]]
        rank == <<>> \o [i \in idx |->
                    Cardinality({j \in 1..i : first[j]})]
        firsts == Cardinality({j \in idx : first[j]})
        n == IF firsts < max_items THEN firsts ELSE max_items
    IN  IF ~values.is_list THEN out = <<>>
        ELSE /\ Len(out) = n
             /\ \A i \in idx :
                   (first[i] /\ rank[i] <= n) => out[rank[i]] = texts[i]

\* A list of at most max_items non-empty trimmed texts, no two of them
\* equal but for their case.
CleanList(field, max_items) ==
    /\ field.is_list
    /\ Len(field.items) <= max_items
    /\ \A i \in 1..Len(field.items) :
          /\ field.items[i] # <<>>
          /\ ~IsSpace(field.items[i][1])
          /\ ~IsSpace(field.items[i][Len(field.items[i])])
          /\ \A j \in 1..(i - 1) :
                Lower(field.items[j]) # Lower(field.items[i])

CleanPayload(payload) ==
    /\ DOMAIN payload =
          {"subtags", "style_traits", "emotions", "pack_suggestions"}
    /\ CleanList(payload.subtags, 20)
    /\ CleanList(payload.style_traits, 12)
    /\ CleanList(payload.emotions, 10)
    /\ CleanList(payload.pack_suggestions, 12)

\* The payload is what is kept of the dict it was normalized from.
PayloadKeptFrom(payload, dict) ==
    /\ KeptFrom(payload.subtags.items, dict.subtags, 20)
    /\ KeptFrom(payload.style_traits.items, dict.style_traits, 12)
    /\ KeptFrom(payload.emotions.items, dict.emotions, 10)
    /\ KeptFrom(payload.pack_suggestions.items, dict.pack_suggestions, 12)

\* C30: every payload that expand_labels_with_llm returns, hands to
\* save_llm_expansion or has persisted has exactly the keys subtags,
\* style_traits, emotions and pack_suggestions, each a list of non-empty
\* trimmed texts, no two equal but for their case, of at most 20, 12, 10 and
\* 12 texts; the texts are the first occurrences in the lists of the cached
\* or answered dict, in their order, and a field that is missing or no list
\* gives the empty list.
C30_PayloadNormalized ==
    /\ \A p \in Threads :
          (frame[p].fn = "expand" /\ frame[p].at \in {"save", "returned"}) =>
              /\ CleanPayload(frame[p].value)
              /\ frame[p].source.kind = "value" =>
                    PayloadKeptFrom(frame[p].value, frame[p].source.value)
              /\ frame[p].source.kind # "value" =>
                    frame[p].value = EmptyExpansion
    /\ \A p \in Threads :
          call[p].op = "save_llm_expansion" =>
              /\ CleanPayload(call[p].expansion_payload)
              /\ call[p].expansion_payload = frame[p].value
    /\ \A k \in CacheKeys :
          llm_cache[k].present => CleanPayload(llm_cache[k].expansion)

\* A call returned, and has persisted, the payload of an answer whose
\* subtags were cut to 20, the first of them trimmed, and whose
\* style_traits were no list.
C30_Witness ==
    \E p \in Threads :
        /\ frame[p].fn = "expand"
        /\ frame[p].at = "returned"
        /\ frame[p].source = Returned(RemoteDict)
        /\ Len(frame[p].value.subtags.items) = 20
        /\ frame[p].value.subtags.items[1] = <<"a">>
        /\ frame[p].value.subtags.items[2] = <<"b">>
        /\ frame[p].value.style_traits = JsonList(<<>>)
        /\ Len(frame[p].value.pack_suggestions.items) = 12
        /\ llm_cache[FrameKey(frame[p])].present
        /\ llm_cache[FrameKey(frame[p])].expansion = frame[p].value

\* ---------------------------------------------------------------------
\* The ranking of classify_pil
\* ---------------------------------------------------------------------

\* Logits, as whole numbers below LogitSpan.
LogitSpan == 4
LogitArgs == 1..(LogitSpan - 1)

\* Lines 422-426: "sorted(clean_labels, key=lambda label:
\* (effective_scores.get(label, 0.0), logits_by_label.get(label, -inf)),
\* reverse=True)".  Label i is the i-th of clean_labels; the pair (score,
\* logit) is compared as the number score * LogitSpan + logit, which orders
\* the pairs as Python orders the tuples.
OrderedByScoreAndLogit(effective_scores, logits_by_label) ==
    LET keyed == [i \in DOMAIN effective_scores |->
                     [key |-> effective_scores[i] * LogitSpan
                                 + logits_by_label[i],
                      label |-> i]]
        sorted == SortDescending(keyed)
    IN  [i \in DOMAIN sorted |-> sorted[i].label]

\* Lines 428-438: label and score of the first top_k labels of ordered.
TopLabelsPayload(ordered, effective_scores) ==
    [i \in 1..(IF ClipTopK < Len(ordered) THEN ClipTopK ELSE Len(ordered)) |->
        [label |-> ordered[i], score |-> effective_scores[ordered[i]]]]

\* What _softmax gives for the logits: scores that add up to 1, a higher
\* logit never with a lower score, equal logits with equal scores.  Two
\* logits that differ may have the same score: the float32 exponential of
\* a difference below 2^-25 is 1.0, and that of one below -104 is 0.0.
SoftmaxOf(logits, scores) ==
    /\ DOMAIN scores = DOMAIN logits
    /\ FloatSumClamped(scores) = FloatOne
    /\ \A i, j \in DOMAIN logits :
          /\ logits[i] < logits[j] => scores[i] <= scores[j]
          /\ logits[i] = logits[j] => scores[i] = scores[j]

\* 0, 1/8, 1/4, 3/8, 1/2 and 1.
SoftmaxScoreArgs ==
    {0, FloatOne \div 8, FloatOne \div 4, 3 * (FloatOne \div 8),
     FloatOne \div 2, FloatOne}

RankedBaseArgs == UNION {[1..n -> SoftmaxScoreArgs] : n \in 1..MaxScores}

\* classify_pil, lines 412-446 and 468-471: the effective scores, the two
\* orderings, and category, confidence and top_labels of the result.
ClassifyRank(p) ==
    /\ p = EventLoop
    /\ pc[p] = "idle"
    /\ \E base_scores \in RankedBaseArgs :
         \E logits_by_label \in [DOMAIN base_scores -> LogitArgs] :
            /\ SoftmaxOf(logits_by_label, base_scores)
            /\ \E consults \in BOOLEAN, affinity_weight \in AffinityArgs,
                  alpha \in AlphaArgs :
               LET effective_scores ==
                       IF consults
                       THEN ApplyAdaptiveScores(base_scores, affinity_weight,
                                                alpha)
                       ELSE base_scores
                   ordered == OrderedByScoreAndLogit(effective_scores,
                                                     logits_by_label)
                   top_k == IF ClipTopK < Len(ordered) THEN ClipTopK
                            ELSE Len(ordered)
                   top_items == TopKItems(effective_scores, top_k)
                   best_label == top_items[1][1]
               IN  Start(p, [fn |-> "rank", base_scores |-> base_scores,
                             logits_by_label |-> logits_by_label,
                             consults |-> consults,
                             affinity_weight |->
                                 IF consults THEN affinity_weight ELSE 0,
                             alpha |-> IF consults THEN alpha ELSE 0,
                             effective_scores |-> effective_scores,
                             ordered |-> ordered,
                             response |->
                                [category |-> best_label,
                                 confidence |-> effective_scores[best_label],
                                 top_labels |->
                                     TopLabelsPayload(ordered,
                                                      effective_scores)]])
    /\ pc' = [pc EXCEPT ![p] = "run"]
    /\ UNCHANGED <<storeVars, tableVars, classifierVars, call, result,
                   ghostVars>>

\* The caller has the result.
RankOver(p) ==
    /\ pc[p] = "run"
    /\ frame[p].fn = "rank"
    /\ pc' = [pc EXCEPT ![p] = "idle"]
    /\ frame' = [frame EXCEPT ![p] = NoFrame]
    /\ UNCHANGED <<storeVars, tableVars, classifierVars, call, result,
                   ghostVars>>

NextRank == ClassifyRank(EventLoop) \/ RankOver(EventLoop)

\* Rankings, one after the other.
SpecRank == Init /\ [][NextRank]_vars

Ranked == {p \in Threads : frame[p].fn = "rank"}

\* C31: in every classification result, category is the label of the first
\* entry of top_labels and confidence is that entry's score, also when
\* labels tie on the effective score.
C31_CategoryIsFirstTopLabel ==
    \A p \in Ranked :
        /\ frame[p].response.category = frame[p].response.top_labels[1].label
        /\ frame[p].response.confidence =
               frame[p].response.top_labels[1].score

\* Thread p calls record_feedback in this step.
EntersRecordFeedback(p) ==
    /\ pc[p] = "idle"
    /\ pc'[p] # "idle"
    /\ call'[p].op = "record_feedback"

\* C32: the four caches share one availability state.  Once any store
\* operation has detected a failure, a record_feedback called afterwards
\* returns at once, with no statement, no exception and no counter changed;
\* the counters change only in the statement of a record_feedback that was
\* called while the store was enabled; and a record_feedback called with
\* the store disabled never raises.
C32_OneAvailabilityState ==
    /\ [][\A p \in Threads :
             (backend_failed /\ EntersRecordFeedback(p)) =>
                 /\ started_disabled'[p]
                 /\ pc'[p] = "return"
                 /\ result'[p] = PyNone
                 /\ feedback' = feedback]_vars
    /\ [][feedback' # feedback =>
             \E p \in Threads :
                /\ call[p].op = "record_feedback"
                /\ ~started_disabled[p]
                /\ pc[p] = "exec"
                /\ pc'[p] = "return"]_vars
    /\ [](\A p \in Threads :
             (call[p].op = "record_feedback" /\ started_disabled[p]) =>
                 /\ ~sent_statement[p]
                 /\ result[p] = PyNone)

\* The statement of a classification's save of an enrichment payload or of
\* label embeddings has failed; the only feedback ever registered was called
\* afterwards and has returned, and its record counts nothing.
C32_Witness ==
    /\ ~enabled
    /\ schema_ready
    /\ frame[EventLoop].fn = "classify"
    /\ call[EventLoop].op \in {"save_llm_expansion", "save_label_embeddings"}
    /\ ~started_disabled[EventLoop]
    /\ sent_statement[EventLoop]
    /\ call[FeedbackWorker].op = "record_feedback"
    /\ started_disabled[FeedbackWorker]
    /\ pc[FeedbackWorker] = "return"
    /\ result[FeedbackWorker] = PyNone
    /\ \E k \in FeedbackKeys :
          /\ issued[k].total = 1
          /\ call[FeedbackWorker].image_hash = k[1]
          /\ call[FeedbackWorker].theme = k[2]
          /\ feedback[k].total_assignments = 0

\* C33: get_label_embeddings returns an entry for every label of the
\* normalized list, whatever the memo and the store hold and whether the
\* store is enabled, disabled or fails during the call: when the dict is
\* complete (the memo is about to be updated with it) and when it is
\* returned, every requested label is one of its keys, and it has no other
\* key.
C33_EveryLabelHasAnEntry ==
    \A p \in Threads :
        (/\ frame[p].fn \in {"labels", "classify"}
         /\ \/ frame[p].at = "returned" /\ InLabels(p)
            \/ frame[p].at = "label_save" /\ pc[p] = "return"
                  /\ ~Propagates(result[p])) =>
            Keys(frame[p].out) = Elements(frame[p].labels)

\* A call for two labels has returned both entries although the store
\* failed during the call and holds no row.
C33_Witness ==
    \E p \in Threads :
        /\ InLabels(p)
        /\ frame[p].at = "returned"
        /\ Len(frame[p].labels) = 2
        /\ Keys(frame[p].out) = Elements(frame[p].labels)
        /\ backend_failed
        /\ \A l \in LabelTexts : ~label_cache[<<ClipModelName, l>>].present
        /\ \A q \in Threads \ {p} : frame[q].fn = "none"

\* ---------------------------------------------------------------------
\* The theme a feedback is written and read under
\* ---------------------------------------------------------------------

\* clip_image_theme_feedback is created with "DEFAULT CHARSET=utf8mb4" and
\* no COLLATE: theme is compared under the server's default collation for
\* utf8mb4, which ignores case and accents (utf8mb4_0900_ai_ci,
\* utf8mb4_general_ci) unless the server is configured with a binary one.
ThemeCollations == {"ai_ci", "bin"}

\* What an accent- and case-insensitive collation compares a character as.
FoldChar(ch) ==
    CASE ch = "é" -> "e"
      [] ch = "É" -> "e"
      [] OTHER -> LowerChar(ch)

\* Two texts are equal under the collation when these are equal.
CollationKey(collation, text) ==
    IF collation = "bin" THEN text
    ELSE [i \in 1..Len(text) |-> FoldChar(text[i])]

\* "WHERE image_hash = %s AND theme = %s" of get_affinity_weight, and the
\* PRIMARY KEY (image_hash, theme) of the upsert of record_feedback.
SameFeedbackRow(collation, row, image_hash, theme) ==
    /\ row.image_hash = image_hash
    /\ CollationKey(collation, row.theme) = CollationKey(collation, theme)

ThemePairArgs == {<<>>, <<"t">>, <<"e">>, <<"é">>, <<" ", "E">>, <<"É", " ">>}

\* register_pack_feedback(h, T, accepted) on an empty table with the store
\* available, then a classification of the image of hash h with theme T':
\* the row that record_feedback inserts under the normalized T (none when
\* that is empty), and what get_affinity_weight finds under the normalized
\* T' (it is not called when that is empty).
RegisterThenClassify(p) ==
    /\ p = EventLoop
    /\ pc[p] = "idle"
    /\ \E collation \in ThemeCollations, h \in Hashes,
          written \in ThemePairArgs, read \in ThemePairArgs,
          accepted \in BOOLEAN :
         LET stored == NormalizeTheme(written)
             asked == NormalizeTheme(read)
             rows == IF stored = <<>> THEN <<>>
                     ELSE << [image_hash |-> h, theme |-> stored,
                              acceptance_count |->
                                  IF accepted THEN 1 ELSE 0,
                              total_assignments |-> 1] >>
             found == /\ ConsultsFeedback(h, asked)
                      /\ rows # <<>>
                      /\ SameFeedbackRow(collation, rows[1], h, asked)
         IN  Start(p, [fn |-> "theme", collation |-> collation,
                       image_hash |-> h, written |-> written,
                       read |-> read, accepted |-> accepted,
                       rows |-> rows, row_found |-> found,
                       affinity_weight |->
                           IF found
                           THEN Weight(rows[1].acceptance_count,
                                       rows[1].total_assignments)
                           ELSE ZeroWeight])
    /\ pc' = [pc EXCEPT ![p] = "run"]
    /\ UNCHANGED <<storeVars, tableVars, classifierVars, call, result,
                   ghostVars>>

\* The classification has its affinity weight.
ThemeOver(p) ==
    /\ pc[p] = "run"
    /\ frame[p].fn = "theme"
    /\ pc' = [pc EXCEPT ![p] = "idle"]
    /\ frame' = [frame EXCEPT ![p] = NoFrame]
    /\ UNCHANGED <<storeVars, tableVars, classifierVars, call, result,
                   ghostVars>>

NextTheme == RegisterThenClassify(EventLoop) \/ ThemeOver(EventLoop)

\* A feedback registration, then a classification of the same image.
SpecTheme == Init /\ [][NextTheme]_vars

\* C34: feedback is written and read under the same normalized theme.
\* After register_pack_feedback(h, T, ...) a classification of h with theme
\* T' reads the record, and so its affinity weight, when T' normalizes to
\* the same non-empty string as T, and does not when it normalizes to a
\* different one.
C34_ReadUnderTheNormalizedTheme ==
    \A p \in Threads :
        frame[p].fn = "theme" =>
            LET stored == NormalizeTheme(frame[p].written)
                asked == NormalizeTheme(frame[p].read)
            IN  /\ frame[p].row_found <=> (stored # <<>> /\ asked = stored)
                /\ frame[p].affinity_weight =
                       IF stored # <<>> /\ asked = stored
                          /\ frame[p].accepted
                       THEN Weight(1, 1) ELSE ZeroWeight

\* ---------------------------------------------------------------------
\* The payload of an enrichment cache hit
\* ---------------------------------------------------------------------

\* The call of thread p is a direct call of expand_labels_with_llm that goes
\* from one place to the next in this step.
ExpandGoes(p, from, to) ==
    /\ frame[p].fn = "expand"
    /\ frame[p].at = from
    /\ frame'[p].fn = "expand"
    /\ frame'[p].at = to

\* C35: an enrichment cache hit returns exactly the payload that the miss
\* which populated the entry returned to its caller.  The statement of a
\* miss's save_llm_expansion persists the payload the miss then returns, and
\* normalizing that payload again changes nothing; the statement of a
\* lookup reads the persisted payload as it is, and the hit returns what was
\* read, unchanged.
C35_HitReturnsThePopulatingPayload ==
    /\ [][\A p \in Threads :
             Executes(p, "save_llm_expansion") =>
                /\ llm_cache'[call[p].cache_key].present
                /\ llm_cache'[call[p].cache_key].expansion = frame[p].value
                /\ NormalizePayload(Returned(frame[p].value)) = frame[p].value
         ]_vars
    /\ [][\A p \in Threads :
             ExpandGoes(p, "save", "returned") =>
                frame'[p].value = frame[p].value
         ]_vars
    /\ [][\A p \in Threads :
             (/\ Executes(p, "get_llm_expansion")
              /\ llm_cache[call[p].cache_key].present) =>
                result'[p] =
                    Returned(llm_cache[call[p].cache_key].expansion)
         ]_vars
    /\ [][\A p \in Threads :
             ExpandGoes(p, "lookup", "returned") =>
                /\ result[p].kind = "value"
                /\ frame'[p].value = result[p].value
         ]_vars

\* C35 witness: a miss that answered a payload with texts in it and a hit
\* under the same cache key have both returned, and returned equal payloads.
C35_Witness ==
    \E p, q \in Threads :
        /\ p # q
        /\ frame[p].fn = "expand" /\ frame[q].fn = "expand"
        /\ frame[p].at = "returned" /\ frame[q].at = "returned"
        /\ FrameKey(frame[p]) = FrameKey(frame[q])
        /\ frame[q].invoked = 1
        /\ frame[q].source = Returned(RemoteDict)
        /\ frame[p].invoked = 0
        /\ frame[p].source = Returned(frame[q].value)
        /\ frame[p].value = frame[q].value
        /\ frame[p].value.subtags.items # <<>>

====
